---- MODULE Spec2Model ----
(***************************************************************************)
(* Model of the frame pipeline and of the window / camera / virtual-camera *)
(* lifecycle of RoundCamWindow (src/KruGoZor_11_5.py).                     *)
(*                                                                         *)
(* Specifications:                                                         *)
(*   SpecFit   the geometry helpers applied to bounded inputs              *)
(*   SpecPix   the per-pixel alpha functions applied to bounded inputs     *)
(*   SpecPipe  on_tick under every pipeline configuration                  *)
(*   SpecMiss  long runs of ticks (missed-frame counter)                   *)
(*   Spec      ticks interleaved with the user's lifecycle actions         *)
(*   SpecKey   build_alpha_mask on images and the distance sanitisation    *)
(*   SpecLoad  start-up from a saved configuration file                    *)
(*   SpecScale the hotkeys that resize the window                          *)
(*   SpecPick  the colour pick of the chroma dialog                        *)
(*   SpecLife  every lifecycle action of the user up to the program's end  *)
(*   SpecSave  settings saved at the end of a run and loaded by the next   *)
(***************************************************************************)
EXTENDS Integers, Sequences, FiniteSets, TLC

(***************************************************************************)
(* Bounds of the model.                                                    *)
(***************************************************************************)
\* largest source width / height drawn for the geometry helpers
MaxSrc == 11
\* largest target width / height drawn for the geometry helpers
MaxTgt == 15
\* crop rectangle coordinates are drawn from -MaxRect .. MaxRect
MaxRect == 4

Max(a, b) == IF a >= b THEN a ELSE b
Min(a, b) == IF a <= b THEN a ELSE b
Abs(a) == IF a >= 0 THEN a ELSE -a

(***************************************************************************)
(* IEEE-754 double arithmetic of the expressions  int(ceil(a * (b / c)))   *)
(* and  int(a * (b / c))  for positive integers a, b, c < 2^31, computed   *)
(* with integers only.  q = fl(b / c) has a 53-bit significand, so         *)
(*    c * q = b - d / 2^e,  e = 52 - floor(log2(b / c)),                   *)
(* where d is the signed remainder of b * 2^e modulo c.  When c divides    *)
(* a * b the exact product is N - a*d / (c * 2^e) for the integer          *)
(* N = a*b / c, and it is rounded to N exactly when it lies within half    *)
(* the spacing of the doubles around N.                                    *)
(***************************************************************************)
RECURSIVE Pow2(_)
Pow2(n) == IF n <= 0 THEN 1 ELSE 2 * Pow2(n - 1)

RECURSIVE FloorLog2(_)
FloorLog2(n) == IF n < 2 THEN 0 ELSE 1 + FloorLog2(n \div 2)

RECURSIVE UpExp(_, _)
UpExp(b, c) == IF b >= c THEN 0 ELSE 1 + UpExp(2 * b, c)

\* floor(log2(b / c))
QuotExp(b, c) == IF b >= c THEN FloorLog2(b \div c) ELSE -UpExp(b, c)

RECURSIVE PowMod2(_, _)
PowMod2(e, c) == IF e <= 0 THEN 1 % c ELSE (2 * PowMod2(e - 1, c)) % c

\* d with  c * fl(b / c) = b - d / 2^(52 - QuotExp(b, c))
QuotErr(b, c) ==
  LET r == ((b % c) * PowMod2(52 - QuotExp(b, c), c)) % c
  IN  IF 2 * r < c THEN r ELSE r - c

\* sign of  fl(a * fl(b / c)) - a*b/c  when c divides a*b
MulDivSign(a, b, c) ==
  LET N  == (a * b) \div c
      d  == QuotErr(b, c)
      g0 == FloorLog2(N) - QuotExp(b, c) - 1
      g  == IF d > 0 /\ N = Pow2(FloorLog2(N)) THEN g0 - 1 ELSE g0
  IN  IF d = 0 \/ 4 * a * Abs(d) <= c * Pow2(g + 2) THEN 0
      ELSE IF d > 0 THEN -1 ELSE 1

\* int(ceil(a * (b / c)))
CeilMulDiv(a, b, c) ==
  IF (a * b) % c # 0 THEN (a * b) \div c + 1
  ELSE (a * b) \div c + (IF MulDivSign(a, b, c) > 0 THEN 1 ELSE 0)

\* int(a * (b / c))
IntMulDiv(a, b, c) ==
  IF (a * b) % c # 0 THEN (a * b) \div c
  ELSE (a * b) \div c - (IF MulDivSign(a, b, c) < 0 THEN 1 ELSE 0)

\* int(x / (a / b)) for integers x >= 0, a, b >= 1.  With q = fl(a / b) and
\* b * q = a - d / 2^e, the quotient x / q is below the integer N = x*b / a
\* when d < 0, and it is rounded below N when N * |d| / (a * 2^e) exceeds
\* half the spacing of the doubles below N.
IntDivQuot(x, a, b) ==
  IF x = 0 \/ (x * b) % a # 0 THEN (x * b) \div a
  ELSE LET N == (x * b) \div a
           d == QuotErr(a, b)
           g == FloorLog2(N)
           k == QuotExp(a, b) + 1 + (IF N = Pow2(g) THEN 1 ELSE 0) - g
           below == IF k >= 0 THEN N * Abs(d) * Pow2(k) > a
                    ELSE N * Abs(d) > a * Pow2(-k)
       IN  IF d < 0 /\ below THEN N - 1 ELSE N

(***************************************************************************)
(* Images.  An image is its size, the rectangle outside which every pixel  *)
(* is known to be zero (cx, cy, cw, ch) and the chain of operations that   *)
(* produced its pixels from a camera frame.                                *)
(***************************************************************************)
Op(name, a, b, c, d) == [op |-> name, a |-> a, b |-> b, c |-> c, d |-> d]

Img(w, h, ops) == [w |-> w, h |-> h, cx |-> 0, cy |-> 0, cw |-> w, ch |-> h, ops |-> ops]

\* the value standing for an exception raised by a stage
Err == [w |-> -1, h |-> -1, cx |-> 0, cy |-> 0, cw |-> 0, ch |-> 0, ops |-> << >>]

\* None
NoImage == [w |-> -2, h |-> -2, cx |-> 0, cy |-> 0, cw |-> 0, ch |-> 0, ops |-> << >>]

\* a frame as cap.read() returns it
Frame(id, w, h) == Img(w, h, <<Op("frame", id, 0, 0, 0)>>)

\* cv2.flip(img, 1)
Flip(img) ==
  IF img = Err THEN Err
  ELSE [img EXCEPT !.cx = img.w - img.cx - img.cw,
                   !.ops = Append(img.ops, Op("flip", 1, 0, 0, 0))]

\* cv2.cvtColor(img, cv2.COLOR_BGR2RGB)
CvtBgr2Rgb(img) ==
  IF img = Err THEN Err
  ELSE [img EXCEPT !.ops = Append(img.ops, Op("bgr2rgb", 0, 0, 0, 0))]

\* cv2.resize(img, (nw, nh), interpolation): raises on an empty source and on
\* an empty dsize
Resize(img, nw, nh, interp) ==
  IF img = Err \/ img.w < 1 \/ img.h < 1 \/ nw < 1 \/ nh < 1 THEN Err
  ELSE Img(nw, nh, Append(img.ops, Op("resize", nw, nh, interp, 0)))

\* img[y:y2, x:x2].copy() for 0 <= x, 0 <= y
Slice(img, x, y, x2, y2) ==
  IF img = Err THEN Err
  ELSE LET xa == Min(x, img.w)
           xb == Max(xa, Min(x2, img.w))
           ya == Min(y, img.h)
           yb == Max(ya, Min(y2, img.h))
           ca == Max(xa, Min(xb, img.cx))
           cb == Max(ca, Min(xb, img.cx + img.cw))
           ra == Max(ya, Min(yb, img.cy))
           rb == Max(ra, Min(yb, img.cy + img.ch))
       IN  [w |-> xb - xa, h |-> yb - ya,
            cx |-> ca - xa, cy |-> ra - ya, cw |-> cb - ca, ch |-> rb - ra,
            ops |-> Append(img.ops, Op("slice", x, y, x2, y2))]

\* pad = np.zeros((H, W, 3)); pad[:out.shape[0], :out.shape[1]] = out
Pad(out, W, H) ==
  IF out = Err \/ out.w > W \/ out.h > H THEN Err
  ELSE [w |-> W, h |-> H, cx |-> out.cx, cy |-> out.cy, cw |-> out.cw, ch |-> out.ch,
        ops |-> Append(out.ops, Op("pad", W, H, 0, 0))]

\* out = np.zeros((H, W, 3)); out[y:y + nh, x:x + nw] = resized
Canvas(resized, W, H, x, y) ==
  IF resized = Err \/ x < 0 \/ y < 0 \/ x + resized.w > W \/ y + resized.h > H THEN Err
  ELSE [w |-> W, h |-> H, cx |-> x + resized.cx, cy |-> y + resized.cy,
        cw |-> resized.cw, ch |-> resized.ch,
        ops |-> Append(resized.ops, Op("canvas", W, H, x, y))]

(***************************************************************************)
(* Geometry helpers.                                                       *)
(***************************************************************************)
clamp(v, lo, hi) == Max(lo, Min(hi, v))

\* CropClamp with x and y clamped to the frame size instead of the last index
CropClamp_OffByOne(rect, FW, FH) ==
  LET x2 == clamp(rect[1], 0, FW)
      y2 == clamp(rect[2], 0, FH)
      w2 == clamp(rect[3], 1, FW - x2)
      h2 == clamp(rect[4], 1, FH - y2)
  IN  <<x2, y2, w2, h2>>

\* the clamped crop rectangle of on_tick for a frame of FW x FH
CropClamp(rect, FW, FH) ==
  LET x2 == clamp(rect[1], 0, FW - 1)
      y2 == clamp(rect[2], 0, FH - 1)
      w2 == clamp(rect[3], 1, FW - x2)
      h2 == clamp(rect[4], 1, FH - y2)
  IN  <<x2, y2, w2, h2>>

\* max(W / w, H / h) as the fraction <<numerator, denominator>>
CoverScale(w, h, W, H) == IF W * h >= H * w THEN <<W, w>> ELSE <<H, h>>

\* min(W / w, H / h) as the fraction <<numerator, denominator>>
FitScale(w, h, W, H) == IF W * h <= H * w THEN <<W, w>> ELSE <<H, h>>

\* center_crop_fit with width and height exchanged in the crop window
center_crop_fit_Swapped(rgb, W, H) ==
  IF rgb = Err \/ rgb.w < 1 \/ rgb.h < 1 THEN Err
  ELSE LET sc  == CoverScale(rgb.w, rgb.h, W, H)
           nw  == CeilMulDiv(rgb.w, sc[1], sc[2])
           nh  == CeilMulDiv(rgb.h, sc[1], sc[2])
           rs  == Resize(rgb, nw, nh, 3)
           x   == Max(0, (nw - H) \div 2)
           y   == Max(0, (nh - W) \div 2)
           x2  == Min(nw, x + H)
           y2  == Min(nh, y + W)
           out == Slice(rs, x, y, x2, y2)
       IN  IF out = Err THEN Err
           ELSE IF out.h # H \/ out.w # W THEN Pad(out, W, H) ELSE out

\* center_crop_fit resizing to one pixel more than the scale asks for
center_crop_fit_RoundUp(rgb, W, H) ==
  IF rgb = Err \/ rgb.w < 1 \/ rgb.h < 1 THEN Err
  ELSE LET sc  == CoverScale(rgb.w, rgb.h, W, H)
           nw  == CeilMulDiv(rgb.w, sc[1], sc[2]) + 1
           nh  == CeilMulDiv(rgb.h, sc[1], sc[2]) + 1
           rs  == Resize(rgb, nw, nh, 3)
           x   == Max(0, (nw - W) \div 2)
           y   == Max(0, (nh - H) \div 2)
           x2  == Min(nw, x + W)
           y2  == Min(nh, y + H)
           out == Slice(rs, x, y, x2, y2)
       IN  IF out = Err THEN Err
           ELSE IF out.h # H \/ out.w # W THEN Pad(out, W, H) ELSE out

center_crop_fit(rgb, W, H) ==
  IF rgb = Err \/ rgb.w < 1 \/ rgb.h < 1 THEN Err
  ELSE LET sc  == CoverScale(rgb.w, rgb.h, W, H)
           nw  == CeilMulDiv(rgb.w, sc[1], sc[2])
           nh  == CeilMulDiv(rgb.h, sc[1], sc[2])
           rs  == Resize(rgb, nw, nh, 3)
           x   == Max(0, (nw - W) \div 2)
           y   == Max(0, (nh - H) \div 2)
           x2  == Min(nw, x + W)
           y2  == Min(nh, y + H)
           out == Slice(rs, x, y, x2, y2)
       IN  IF out = Err THEN Err
           ELSE IF out.h # H \/ out.w # W THEN Pad(out, W, H) ELSE out

\* letterbox with the content put in the top left corner
letterbox_TopLeft(rgb, W, H) ==
  IF rgb = Err \/ rgb.w < 1 \/ rgb.h < 1 THEN Err
  ELSE LET sc == FitScale(rgb.w, rgb.h, W, H)
           nw == IntMulDiv(rgb.w, sc[1], sc[2])
           nh == IntMulDiv(rgb.h, sc[1], sc[2])
           resized == Resize(rgb, nw, nh, 3)
       IN  Canvas(resized, W, H, 0, 0)

letterbox(rgb, W, H) ==
  IF rgb = Err \/ rgb.w < 1 \/ rgb.h < 1 THEN Err
  ELSE LET sc == FitScale(rgb.w, rgb.h, W, H)
           nw == IntMulDiv(rgb.w, sc[1], sc[2])
           nh == IntMulDiv(rgb.h, sc[1], sc[2])
           resized == Resize(rgb, nw, nh, 3)
       IN  Canvas(resized, W, H, (W - nw) \div 2, (H - nh) \div 2)

\* the square ROI on_tick cuts out of disp for a window of the given width
CoverRoi(disp, width) ==
  IF disp = Err THEN Err
  ELSE LET target == Max(1, width)
           sc  == CoverScale(Max(1, disp.w), Max(1, disp.h), target, target)
           nw0 == CeilMulDiv(disp.w, sc[1], sc[2])
           nh0 == CeilMulDiv(disp.h, sc[1], sc[2])
           nw  == IF nw0 < 1 THEN 1 ELSE nw0
           nh  == IF nh0 < 1 THEN 1 ELSE nh0
           rs  == Resize(disp, nw, nh, 1)
           start_x == Max(0, (nw - target) \div 2)
           start_y == Max(0, (nh - target) \div 2)
           end_x == Min(nw, start_x + target)
           end_y == Min(nh, start_y + target)
           roi == Slice(rs, start_x, start_y, end_x, end_y)
       IN  IF roi = Err THEN Err
           ELSE IF roi.h # target \/ roi.w # target THEN Pad(roi, target, target) ELSE roi

(***************************************************************************)
(* Per-pixel functions of the alpha channel.                               *)
(***************************************************************************)
\* bound of the small channel values drawn for pixels: 0 .. MaxChan and 255
MaxChan == 1
\* largest window side drawn for the shape mask
MaxSide == 4
\* largest window side for which the whole circle mask is drawn
MaxMaskSide == 12

\* the circle drawn around (size/2, size/2) instead of ((size-1)/2, (size-1)/2)
circle_alpha_mask_OffCentre(size, x, y) ==
  IF (2 * x - size) * (2 * x - size) + (2 * y - size) * (2 * y - size) <= size * size
  THEN 255 ELSE 0

\* the circle drawn with radius size instead of size/2
circle_alpha_mask_Diameter(size, x, y) ==
  IF (2 * x - (size - 1)) * (2 * x - (size - 1))
       + (2 * y - (size - 1)) * (2 * y - (size - 1)) <= 4 * size * size
  THEN 255 ELSE 0

\* circle_alpha_mask(size)[y][x]: c = (size-1)/2, r = size/2, dist <= r, with
\* all coordinates doubled
circle_alpha_mask(size, x, y) ==
  IF (2 * x - (size - 1)) * (2 * x - (size - 1))
       + (2 * y - (size - 1)) * (2 * y - (size - 1)) <= size * size
  THEN 255 ELSE 0

\* shape_mask of on_tick at pixel (x, y) of a size x size ROI
ShapeMaskAt(shape, size, x, y) ==
  IF shape = "circle" THEN circle_alpha_mask(size, x, y) ELSE 255

\* circle_alpha_mask(size) as the array mask[y][x]
CircleMask(size) ==
  [y \in 0 .. size - 1 |-> [x \in 0 .. size - 1 |-> circle_alpha_mask(size, x, y)]]

\* the number of pixels of circle_alpha_mask(size) that are 255
OpaqueCount(size) ==
  Cardinality({ p \in (0 .. size - 1) \X (0 .. size - 1) :
                  circle_alpha_mask(size, p[1], p[2]) = 255 })

\* the composition with the product taken in 8 bits
ComposeAlpha_U8(alpha, shape_mask) == (((alpha * shape_mask) % 256) \div 255) % 256

\* (alpha.astype(uint16) * shape_mask.astype(uint16) // 255).astype(uint8)
ComposeAlpha(alpha, shape_mask) ==
  ((((alpha % 65536) * (shape_mask % 65536)) % 65536) \div 255) % 256

\* the threshold test with a strict comparison
DistLeq_Strict(sq, tol) == tol >= 0 /\ sq < tol * tol

\* the threshold test matching only a distance equal to the tolerance
DistLeq_Exact(sq, tol) == tol >= 0 /\ sq = tol * tol

\* (dist <= tol) for dist = float32(sqrt(sq)), sq an int32 sum of squares
DistLeq(sq, tol) == tol >= 0 /\ sq <= tol * tol

\* RefMask comparing the BGR pixel with the pick taken as [r, g, b]
RefMask_NoSwap(bgr, pick, tol) ==
  IF pick = << >> THEN 0
  ELSE LET sq == Abs(bgr[1] - pick[1]) * Abs(bgr[1] - pick[1])
               + Abs(bgr[2] - pick[2]) * Abs(bgr[2] - pick[2])
               + Abs(bgr[3] - pick[3]) * Abs(bgr[3] - pick[3])
       IN  IF DistLeq(sq, tol) THEN 255 ELSE 0

\* m of build_alpha_mask for one reference (0 for an unset one, which the
\* loop skips): r, g, b = pick; target = [b, g, r]
RefMask(bgr, pick, tol) ==
  IF pick = << >> THEN 0
  ELSE LET target == <<pick[3], pick[2], pick[1]>>
           sq == Abs(bgr[1] - target[1]) * Abs(bgr[1] - target[1])
               + Abs(bgr[2] - target[2]) * Abs(bgr[2] - target[2])
               + Abs(bgr[3] - target[3]) * Abs(bgr[3] - target[3])
       IN  IF DistLeq(sq, tol) THEN 255 ELSE 0

\* k of build_alpha_mask: the blur kernel size (no blur when k < 3)
FeatherKernel(feather) ==
  LET k == Max(0, feather)
  IN  IF k % 2 = 0 THEN (IF k > 0 THEN k + 1 ELSE 0) ELSE k

\* build_alpha_mask at one pixel in reference-colour mode when no blur is
\* applied: mask = max over the references, alpha = cv2.subtract(255, mask)
build_alpha_mask(bgr, ch) ==
  LET mask == Max(Max(0, RefMask(bgr, ch.pickA, ch.tolA)), RefMask(bgr, ch.pickB, ch.tolB))
  IN  Max(0, 255 - mask)

(***************************************************************************)
(* build_alpha_mask on a whole image: HSV keying, integer widths of the    *)
(* distance, sanitisation and the feather blur.  The image is one row of   *)
(* pixels.                                                                 *)
(***************************************************************************)
\* cvRound(n / d) for n >= 0, d > 0: to nearest, ties to even
RoundDiv(n, d) ==
  LET q == n \div d
      r == n % d
  IN  IF 2 * r > d \/ (2 * r = d /\ q % 2 = 1) THEN q + 1 ELSE q

\* sdiv_table and hdiv_table180 of OpenCV's 8-bit RGB2HSV (hsv_shift = 12)
HsvShift == 12
SDivTable(v) == IF v = 0 THEN 0 ELSE RoundDiv(255 * Pow2(HsvShift), v)
HDivTable(diff) == IF diff = 0 THEN 0 ELSE RoundDiv(180 * Pow2(HsvShift), 6 * diff)

\* cv2.cvtColor(bgr, cv2.COLOR_BGR2HSV) at one 8-bit pixel: <<H, S, V>> with
\* H in 0..179
BgrToHsv(bgr) ==
  LET b == bgr[1]
      g == bgr[2]
      r == bgr[3]
      v == Max(b, Max(g, r))
      vmin == Min(b, Min(g, r))
      diff == v - vmin
      sat == (diff * SDivTable(v) + Pow2(HsvShift - 1)) \div Pow2(HsvShift)
      h0 == IF v = r THEN g - b
            ELSE IF v = g THEN b - r + 2 * diff
            ELSE r - g + 4 * diff
      h1 == (h0 * HDivTable(diff) + Pow2(HsvShift - 1)) \div Pow2(HsvShift)
      hue == IF h1 < 0 THEN h1 + 180 ELSE h1
  IN  <<hue, sat, v>>

\* np.array([...], dtype=np.uint8) at one element
U8(v) == v % 256

\* inRange with the upper bounds exclusive
InRange_Exclusive(hsv, ch) ==
  IF /\ U8(ch.h_min) <= hsv[1] /\ hsv[1] < U8(ch.h_max)
     /\ U8(ch.s_min) <= hsv[2] /\ hsv[2] < U8(ch.s_max)
     /\ U8(ch.v_min) <= hsv[3] /\ hsv[3] < U8(ch.v_max)
  THEN 255 ELSE 0

\* cv2.inRange(hsv, lower, upper) at one pixel
InRange(hsv, ch) ==
  IF /\ U8(ch.h_min) <= hsv[1] /\ hsv[1] <= U8(ch.h_max)
     /\ U8(ch.s_min) <= hsv[2] /\ hsv[2] <= U8(ch.s_max)
     /\ U8(ch.v_min) <= hsv[3] /\ hsv[3] <= U8(ch.v_max)
  THEN 255 ELSE 0

\* a value wrapped to int16
Wrap16(v) == ((v + 32768) % 65536) - 32768

\* np.abs on int16: the most negative value has no positive counterpart
AbsI16(v) == IF v = -32768 THEN -32768 ELSE Abs(v)

MaxI32 == 2147483647

\* a + b wrapped to int32, for b >= 0 and a, b in the int32 range
Add32(a, b) ==
  IF a > 0 /\ b > MaxI32 - a THEN (a - MaxI32 - 1) + (b - MaxI32 - 1) ELSE a + b

\* sq of build_alpha_mask at one pixel as a 32-bit sum: negative iff the
\* true sum of the three squares is 2^31 or more
Sq32(bgr, pick) ==
  LET target == <<Wrap16(pick[3]), Wrap16(pick[2]), Wrap16(pick[1])>>
      d1 == AbsI16(Wrap16(bgr[1] - target[1]))
      d2 == AbsI16(Wrap16(bgr[2] - target[2]))
      d3 == AbsI16(Wrap16(bgr[3] - target[3]))
  IN  Add32(Add32(d1 * d1, d2 * d2), d3 * d3)

\* a float32 distance: sqrt(sq) ("fin"), a finite value above 46340 ("big"),
\* or one of the non-finite values
Fin(sq) == [kind |-> "fin", sq |-> sq]
NonFin(kind) == [kind |-> kind, sq |-> 0]

\* np.sqrt(sq).astype(np.float32).  .sum(axis=2) accumulates in the platform
\* integer: 32 bits (long32: numpy 1.x on Windows), where the sum can wrap
\* to a negative number whose root is NaN, or 64 bits, where it cannot
SqrtDist(sq, long32) ==
  IF sq >= 0 THEN Fin(sq)
  ELSE IF long32 THEN NonFin("nan") ELSE NonFin("big")

\* nan_to_num replacing every non-finite value by 0.0
nan_to_num_AllZero(d) ==
  IF d.kind \in {"nan", "posinf", "neginf"} THEN Fin(0) ELSE d

\* np.nan_to_num(dist, nan=0.0, posinf=255.0, neginf=0.0)
nan_to_num(d) ==
  IF d.kind = "nan" THEN Fin(0)
  ELSE IF d.kind = "posinf" THEN Fin(255 * 255)
  ELSE IF d.kind = "neginf" THEN Fin(0)
  ELSE d

\* dist <= tol for a sanitised distance and a tolerance below 46340
LeqTol(d, tol) == IF d.kind = "big" THEN FALSE ELSE DistLeq(d.sq, tol)

\* m of build_alpha_mask for one reference on a build with the given
\* accumulator width
RefMaskAt(bgr, pick, tol, long32) ==
  IF pick = << >> THEN 0
  ELSE IF LeqTol(nan_to_num(SqrtDist(Sq32(bgr, pick), long32)), tol) THEN 255 ELSE 0

\* cv2.getGaussianKernel(k, 0) for the 8-bit blur, in 1/256 (the fixed
\* tables OpenCV uses for k <= 7)
GaussKernel(k) ==
  IF k = 3 THEN <<64, 128, 64>>
  ELSE IF k = 5 THEN <<16, 64, 96, 64, 16>>
  ELSE <<8, 28, 56, 72, 56, 28, 8>>

\* index i of a row of n pixels under BORDER_REFLECT_101
Reflect101(i, n) ==
  IF n = 1 THEN 0
  ELSE LET j == i % (2 * n - 2)
       IN  IF j >= n THEN 2 * n - 2 - j ELSE j

RECURSIVE SumTaps(_, _, _, _)
\* the sum over taps t..Len(ker) of ker[t] * row[x + t - centre], 1-based x
SumTaps(row, ker, x, t) ==
  IF t > Len(ker) THEN 0
  ELSE ker[t] * row[Reflect101((x - 1) + t - 1 - (Len(ker) \div 2), Len(row)) + 1]
         + SumTaps(row, ker, x, t + 1)

\* cv2.GaussianBlur(mask, (k, k), 0) for an 8-bit mask whose rows are all
\* equal to row: the vertical pass changes nothing, the horizontal pass is
\* rounded from 8.8 fixed point
GaussianBlur(row, k) ==
  [x \in 1 .. Len(row) |-> (SumTaps(row, GaussKernel(k), x, 1) + 128) \div 256]

\* the blur applied whenever the feather is positive
MaybeBlur_AnyPositive(mask, feather) ==
  IF feather >= 1 THEN GaussianBlur(mask, Max(3, FeatherKernel(feather))) ELSE mask

\* lines 1264-1266: the mask after the optional blur
MaybeBlur(mask, feather) ==
  IF FeatherKernel(feather) >= 3 THEN GaussianBlur(mask, FeatherKernel(feather)) ELSE mask

\* the background mask of build_alpha_mask (lines 1248-1263) at one pixel
BgMaskAt(bgr, ch, long32) ==
  IF ch.use_hsv THEN InRange(BgrToHsv(bgr), ch)
  ELSE Max(Max(0, RefMaskAt(bgr, ch.pickA, ch.tolA, long32)),
           RefMaskAt(bgr, ch.pickB, ch.tolB, long32))

\* the background mask of an image whose rows are all equal to img
BgMask(img, ch, long32) == [x \in 1 .. Len(img) |-> BgMaskAt(img[x], ch, long32)]

\* build_alpha_mask on an image whose rows are all equal to img: one row of
\* the alpha returned
build_alpha_mask_img(img, ch, long32) ==
  LET mask == MaybeBlur(BgMask(img, ch, long32), ch.feather)
  IN  [x \in 1 .. Len(img) |-> Max(0, 255 - mask[x])]

(***************************************************************************)
(* State.                                                                  *)
(***************************************************************************)
VARIABLES
  state,            \* AppState
  chroma,           \* ChromaConfig
  crop,             \* CropConfig
  cap_open,         \* self.cap.isOpened()
  timer_active,     \* self.timer.isActive()
  vcam,             \* self.vcam: "none" or "open"
  act_vcam_enable,  \* checked state of the menu item act_vcam_enable
  tray_act_show,    \* checked state of the tray item tray_act_show
  visible,          \* the window is shown
  win_w,            \* self.size().width()
  vcam_size,        \* <<self.vcam_w, self.vcam_h>>
  no_frame_count,   \* self._no_frame_count
  last_frame_bgr,   \* self.last_frame_bgr
  current_qpix,     \* self._current_qpix
  ev,               \* what the last handler did that the outside can observe
  send_failed,      \* a send has failed since the user last enabled the vcam
  call,             \* the last call of a geometry helper and its result
  pix,              \* the last call of a per-pixel function and its result
  pick_target,      \* ChromaDialog._pick_target: "none" when the attribute is unset
  vcam_dev,         \* the device start_vcam created last: made, and the close() calls on it
  app,              \* "running", or "closed" once closeEvent has run
  config_file       \* the contents of config.json

cfgvars  == <<state, chroma, crop>>
lifevars == <<cap_open, timer_active, vcam, act_vcam_enable, tray_act_show, visible>>
sizevars == <<win_w, vcam_size>>
pipevars == <<no_frame_count, last_frame_bgr, current_qpix>>
obsvars  == <<ev, send_failed>>
purevars == <<call, pix>>
extvars  == <<pick_target, vcam_dev, app, config_file>>
vars == <<cfgvars, lifevars, sizevars, pipevars, obsvars, purevars, extvars>>

\* None for a list-valued field (pickA, pickB, rect)
None == << >>

\* AppState(): opacities are kept in percent
AppStateDefault ==
  [always_on_top |-> TRUE, click_through |-> FALSE, window_mirror |-> FALSE,
   vcam_enabled |-> FALSE, vcam_mirror |-> FALSE, circle_diameter |-> 360,
   pos_x |-> 100, pos_y |-> 100, window_shape |-> "circle", vcam_fit |-> "fill",
   window_opacity |-> 100]

\* ChromaConfig()
ChromaDefault ==
  [enabled |-> FALSE, pickA |-> None, tolA |-> 30, pickB |-> None, tolB |-> 30,
   use_hsv |-> FALSE, h_min |-> 35, h_max |-> 85, s_min |-> 40, s_max |-> 255,
   v_min |-> 40, v_max |-> 255, feather |-> 15, ui_opacity |-> 85, persist |-> TRUE]

\* CropConfig()
CropDefault == [enabled |-> FALSE, rect |-> None]

\* config.json as ensure_first_run_files leaves it: the text {}, not yet
\* rewritten by the program
EmptyFile == [kind |-> "json", doc |-> {}, writes |-> 0]

\* no virtual-camera device has been created
NoDevice == [made |-> FALSE, closes |-> 0]

\* the device pyvirtualcam.Camera(...) returns
NewDevice == [made |-> TRUE, closes |-> 0]

\* self.vcam.close()
CloseDevice(dev) == [dev EXCEPT !.closes = dev.closes + 1]

\* no window image yet (the attribute _current_qpix does not exist)
NoPix == [roi |-> NoImage, alpha |-> "none", shape |-> "none"]

\* nothing observed
EvNone ==
  [h |-> "none", read |-> "none", diag |-> FALSE, published |-> FALSE,
   send |-> "none", out |-> NoImage, exc |-> FALSE, escaped |-> FALSE]

Ev(h) == [EvNone EXCEPT !.h = h]

NoPixCall ==
  [fn |-> "none", done |-> FALSE, alpha |-> 0, shape |-> "none", size |-> 0, x |-> 0, y |-> 0,
   bgr |-> <<0, 0, 0>>, ch |-> ChromaDefault, mask |-> 0, res |-> 0,
   img |-> << >>, long32 |-> FALSE, bg |-> << >>, out |-> << >>,
   d |-> Fin(0), san |-> Fin(0), tol |-> 0, match |-> FALSE]

NoCall ==
  [fn |-> "none", args |-> << >>, done |-> FALSE, img |-> NoImage, rect |-> << >>,
   img2 |-> NoImage]


\* the state right after RoundCamWindow.__init__ and main() with the default
\* configuration, a 360 px window and a 1920x1080 virtual camera
InitApp ==
  /\ state = AppStateDefault
  /\ chroma = ChromaDefault
  /\ crop = CropDefault
  /\ cap_open = TRUE
  /\ timer_active = TRUE
  /\ vcam = "none"
  /\ act_vcam_enable = FALSE
  /\ tray_act_show = TRUE
  /\ visible = TRUE
  /\ win_w = 360
  /\ vcam_size = <<1920, 1080>>
  /\ no_frame_count = 0
  /\ last_frame_bgr = NoImage
  /\ current_qpix = NoPix
  /\ ev = EvNone
  /\ send_failed = FALSE
  /\ pick_target = "none"
  /\ vcam_dev = NoDevice
  /\ app = "running"
  /\ config_file = EmptyFile

InitDefaults == InitApp /\ call = NoCall /\ pix = NoPixCall

(***************************************************************************)
(* on_tick.                                                                *)
(***************************************************************************)
\* the missed-frame warning is logged for this value of _no_frame_count,
\* every tenth miss
MissDiag_EveryTenth(count) == count \in {1, 10, 50} \/ count % 10 = 0

\* the missed-frame warning is logged for this value of _no_frame_count
MissDiag(count) == count \in {1, 10, 50} \/ count % 100 = 0

\* src of on_tick: the frame, or its clamped crop; unpacking a rect that has
\* not four elements raises
CropSrc(frame, cr) ==
  IF cr.enabled /\ cr.rect # None
  THEN IF Len(cr.rect) # 4 THEN Err
       ELSE LET r == CropClamp(cr.rect, frame.w, frame.h)
            IN  Slice(frame, r[1], r[2], r[1] + r[3], r[2] + r[4])
  ELSE frame

\* the vcam frame taken from the cropped source instead of the window's ROI
VcamSource_FromSrc(roi, src) == src

\* vframe = roi.copy()
VcamSource(roi, src) == roi

\* out of on_tick: the frame handed to vcam.send
VcamOut(vframe, st, size) ==
  LET v   == IF st.vcam_mirror THEN Flip(vframe) ELSE vframe
      rgb == CvtBgr2Rgb(v)
  IN  IF st.vcam_fit = "fill" THEN center_crop_fit(rgb, size[1], size[2])
      ELSE letterbox(rgb, size[1], size[2])

\* _current_qpix built from roi
Qpix(roi, st, ch) ==
  [roi |-> roi, alpha |-> IF ch.enabled THEN "chroma" ELSE "opaque",
   shape |-> IF st.window_shape = "circle" THEN "circle" ELSE "full"]

\* the camera is closed: on_tick returns at once
TickClosed ==
  /\ ~cap_open
  /\ ev' = Ev("on_tick")
  /\ UNCHANGED <<extvars, cfgvars, lifevars, sizevars, pipevars, send_failed, purevars>>

\* a failed read that also drops the displayed image and the last frame
TickMiss_Clears(maxmiss) ==
  /\ cap_open
  /\ no_frame_count < maxmiss
  /\ no_frame_count' = no_frame_count + 1
  /\ ev' = [Ev("on_tick") EXCEPT !.read = "fail", !.diag = MissDiag(no_frame_count + 1)]
  /\ last_frame_bgr' = NoImage
  /\ current_qpix' = NoPix
  /\ UNCHANGED <<extvars, cfgvars, lifevars, sizevars, send_failed, purevars>>

\* the read failed (not ok, or frame is None)
TickMiss(maxmiss) ==
  /\ cap_open
  /\ no_frame_count < maxmiss
  /\ no_frame_count' = no_frame_count + 1
  /\ ev' = [Ev("on_tick") EXCEPT !.read = "fail", !.diag = MissDiag(no_frame_count + 1)]
  /\ UNCHANGED <<extvars, cfgvars, lifevars, sizevars, last_frame_bgr, current_qpix,
                 send_failed, purevars>>

\* the stored last frame taken from the cropped source
LastFrame_Cropped(frame, src) == IF src = Err THEN frame ELSE src

\* self.last_frame_bgr = frame, before any crop
LastFrame(frame, src) == frame

\* the read delivered frame; send_ok: vcam.send accepts the frame
TickFrame(frame, send_ok) ==
  LET src  == CropSrc(frame, crop)
      disp == IF state.window_mirror THEN Flip(src) ELSE src
      roi  == CoverRoi(disp, win_w)
      out  == VcamOut(VcamSource(roi, src), state, vcam_size)
      base == [Ev("on_tick") EXCEPT !.read = "ok"]
  IN  /\ cap_open
      /\ no_frame_count' = 0
      /\ last_frame_bgr' = LastFrame(frame, src)
      /\ IF roi = Err
         THEN /\ UNCHANGED current_qpix   \* line 1223 was not reached
              /\ ev' = [base EXCEPT !.exc = TRUE]
              /\ UNCHANGED <<vcam, vcam_dev, send_failed>>
         ELSE /\ current_qpix' = Qpix(roi, state, chroma)
              /\ IF vcam = "none"
                 THEN /\ ev' = [base EXCEPT !.published = TRUE]
                      /\ UNCHANGED <<vcam, vcam_dev, send_failed>>
                 ELSE IF out = Err
                 THEN /\ ev' = [base EXCEPT !.published = TRUE, !.exc = TRUE]
                      /\ UNCHANGED <<vcam, vcam_dev, send_failed>>
                 ELSE IF send_ok
                 THEN /\ ev' = [base EXCEPT !.published = TRUE, !.send = "ok", !.out = out]
                      /\ UNCHANGED <<vcam, vcam_dev, send_failed>>
                 ELSE \* vcam.send raised: log and stop_vcam()
                      /\ ev' = [base EXCEPT !.published = TRUE, !.send = "failed", !.out = out]
                      /\ vcam' = "none"
                      /\ vcam_dev' = CloseDevice(vcam_dev)
                      /\ send_failed' = TRUE
      /\ UNCHANGED <<pick_target, app, config_file, cfgvars, cap_open, timer_active, act_vcam_enable, tray_act_show,
                     visible, sizevars, purevars>>

\* one timer tick; frames: what the camera can deliver; maxmiss: the bound
\* of the missed-frame counter
on_tick(frames, maxmiss) ==
  /\ timer_active
  /\ \/ TickClosed
     \/ TickMiss(maxmiss)
     \/ \E frame \in frames, send_ok \in BOOLEAN : TickFrame(frame, send_ok)

(***************************************************************************)
(* Camera, window and virtual-camera lifecycle.  The handlers are          *)
(* functions of the record L of the fields they read and write; ok, cam_ok *)
(* say whether opening the device succeeds.                                *)
(***************************************************************************)
Life ==
  [cap_open |-> cap_open, timer_active |-> timer_active, vcam |-> vcam,
   vcam_enabled |-> state.vcam_enabled, act |-> act_vcam_enable,
   tray |-> tray_act_show, visible |-> visible, dev |-> vcam_dev]

\* the handler leaves the fields as in L
SetLife(L) ==
  /\ cap_open' = L.cap_open
  /\ timer_active' = L.timer_active
  /\ vcam' = L.vcam
  /\ state' = [state EXCEPT !.vcam_enabled = L.vcam_enabled]
  /\ act_vcam_enable' = L.act
  /\ tray_act_show' = L.tray
  /\ visible' = L.visible
  /\ vcam_dev' = L.dev

\* a failed start (no pyvirtualcam, or Camera() raised) clears the flag and
\* unchecks the menu item, whose toggled(False) runs set_vcam_enabled(False)
start_vcam(L, ok) ==
  IF L.vcam # "none" THEN L
  ELSE IF ok THEN [L EXCEPT !.vcam = "open", !.dev = NewDevice]
  ELSE [L EXCEPT !.vcam = "none", !.vcam_enabled = FALSE, !.act = FALSE]

stop_vcam(L) ==
  IF L.vcam # "none" THEN [L EXCEPT !.vcam = "none", !.dev = CloseDevice(L.dev)] ELSE L

\* set_vcam_enabled run as the slot of act_vcam_enable.toggled: the item is
\* already in the state `enabled`
VcamSlot(L, enabled, ok) ==
  LET L1 == [L EXCEPT !.vcam_enabled = enabled]
  IN  IF enabled THEN start_vcam(L1, ok) ELSE stop_vcam(L1)

\* set_vcam_enabled called directly (hotkey V, __init__): setChecked emits
\* toggled when it changes the item, which runs the slot first
set_vcam_enabled(L, enabled, ok1, ok2) ==
  LET L1 == [L EXCEPT !.vcam_enabled = enabled]
      L2 == IF L.act # enabled THEN VcamSlot([L1 EXCEPT !.act = enabled], enabled, ok1)
            ELSE L1
  IN  IF enabled THEN start_vcam(L2, ok2) ELSE stop_vcam(L2)

\* _on_tray_show_toggled(checked)
on_tray_show_toggled(L, checked, cam_ok, ok) ==
  IF checked
  THEN LET L1 == [L EXCEPT !.visible = TRUE]
           L2 == IF ~L1.cap_open
                 THEN [L1 EXCEPT !.cap_open = cam_ok, !.timer_active = TRUE]
                 ELSE L1
       IN  IF L2.vcam_enabled THEN start_vcam(L2, ok) ELSE L2
  ELSE [L EXCEPT !.vcam = "none",
                 !.dev = IF L.vcam # "none" THEN CloseDevice(L.dev) ELSE L.dev,
                 !.cap_open = FALSE, !.timer_active = FALSE, !.visible = FALSE]

toggle_camera(L, cam_ok) ==
  IF L.cap_open
  THEN LET L1 == [L EXCEPT !.cap_open = FALSE, !.timer_active = FALSE]
       IN  IF L1.tray
           THEN on_tray_show_toggled([L1 EXCEPT !.tray = FALSE], FALSE, cam_ok, FALSE)
           ELSE L1
  ELSE IF cam_ok THEN [L EXCEPT !.cap_open = TRUE, !.timer_active = TRUE]
       ELSE L

\* the user toggles "show window" in the tray menu
TrayShowClicked ==
  /\ \E cam_ok \in BOOLEAN, ok \in BOOLEAN :
       SetLife(on_tray_show_toggled([Life EXCEPT !.tray = ~tray_act_show],
                                    ~tray_act_show, cam_ok, ok))
  /\ ev' = Ev("tray_show")
  /\ UNCHANGED <<pick_target, app, config_file, chroma, crop, sizevars, pipevars, send_failed, purevars>>

\* the user toggles the virtual camera item of the window or tray menu
VcamMenuClicked ==
  /\ \E ok \in BOOLEAN :
       SetLife(VcamSlot([Life EXCEPT !.act = ~act_vcam_enable], ~act_vcam_enable, ok))
  /\ send_failed' = IF ~act_vcam_enable THEN FALSE ELSE send_failed
  /\ ev' = Ev("vcam_menu")
  /\ UNCHANGED <<pick_target, app, config_file, chroma, crop, sizevars, pipevars, purevars>>

\* hotkey V: set_vcam_enabled(not self.state.vcam_enabled)
VcamHotkey ==
  /\ visible
  /\ \E ok1 \in BOOLEAN, ok2 \in BOOLEAN :
       SetLife(set_vcam_enabled(Life, ~state.vcam_enabled, ok1, ok2))
  /\ send_failed' = IF ~state.vcam_enabled THEN FALSE ELSE send_failed
  /\ ev' = Ev("vcam_hotkey")
  /\ UNCHANGED <<pick_target, app, config_file, chroma, crop, sizevars, pipevars, purevars>>

\* the camera item of the window's context menu
CamToggleClicked ==
  /\ visible /\ ~state.click_through
  /\ \E cam_ok \in BOOLEAN : SetLife(toggle_camera(Life, cam_ok))
  /\ ev' = Ev("toggle_camera")
  /\ UNCHANGED <<pick_target, app, config_file, chroma, crop, sizevars, pipevars, send_failed, purevars>>

(***************************************************************************)
(* SpecFit: the geometry helpers applied to bounded inputs.                *)
(***************************************************************************)
\* <<w, h, W, H>>: sizes taken from the spec's scenarios and sizes at which the
\* double arithmetic of the scale is inexact
ScenarioFits ==
  { <<640, 480, 360, 360>>, <<360, 360, 1920, 1080>>, <<400, 400, 1920, 1080>>,
    <<7, 7, 29, 29>>, <<7, 5, 29, 16>>, <<11, 25, 25, 11>>, <<49, 49, 1, 1>>,
    <<1920, 1, 100, 100>> }

FitInputs ==
  { <<w, h, W, H>> : w \in 0 .. MaxSrc, h \in 0 .. MaxSrc,
                     W \in 1 .. MaxTgt, H \in 1 .. MaxTgt } \cup ScenarioFits

\* <<w, h, width>>
RoiInputs ==
  { <<w, h, t>> : w \in 0 .. MaxSrc, h \in 0 .. MaxSrc, t \in 0 .. MaxTgt }
    \cup { <<f[1], f[2], f[3]>> : f \in ScenarioFits }

\* <<x, y, w, h, FW, FH>>
ScenarioCrops == { <<1000, 1000, 50, 50, 640, 480>>, <<-5, 700, 0, -3, 640, 480>> }

CropInputs ==
  { <<x, y, w, h, FW, FH>> : x \in -MaxRect .. MaxRect, y \in {-MaxRect, 0, 1, MaxRect},
                             w \in -1 .. MaxRect + 1, h \in {-1, 0, 1, 2, MaxRect + 1},
                             FW \in 1 .. MaxRect, FH \in {1, 2, MaxRect} }
    \cup ScenarioCrops

\* a call that has its arguments and not yet its result
Pending(fn, a) == [NoCall EXCEPT !.fn = fn, !.args = a]

InitFit ==
  /\ \/ \E a \in FitInputs : call = Pending("center_crop_fit", a)
     \/ \E a \in FitInputs : call = Pending("letterbox", a)
     \/ \E a \in RoiInputs : call = Pending("roi", a)
     \/ \E a \in FitInputs : call = Pending("cover_twice", a)
     \/ \E a \in CropInputs : call = Pending("crop", a)
  /\ InitApp
  /\ pix = NoPixCall

CallCenterCropFit ==
  /\ call.fn = "center_crop_fit" /\ ~call.done
  /\ call' = [call EXCEPT !.done = TRUE,
                !.img = center_crop_fit(Frame(0, call.args[1], call.args[2]),
                                        call.args[3], call.args[4])]
  /\ UNCHANGED <<extvars, cfgvars, lifevars, sizevars, pipevars, obsvars, pix>>

CallLetterbox ==
  /\ call.fn = "letterbox" /\ ~call.done
  /\ call' = [call EXCEPT !.done = TRUE,
                !.img = letterbox(Frame(0, call.args[1], call.args[2]),
                                  call.args[3], call.args[4])]
  /\ UNCHANGED <<extvars, cfgvars, lifevars, sizevars, pipevars, obsvars, pix>>

CallCoverRoi ==
  /\ call.fn = "roi" /\ ~call.done
  /\ call' = [call EXCEPT !.done = TRUE,
                !.img = CoverRoi(Frame(0, call.args[1], call.args[2]), call.args[3])]
  /\ UNCHANGED <<extvars, cfgvars, lifevars, sizevars, pipevars, obsvars, pix>>

CallCropClamp ==
  /\ call.fn = "crop" /\ ~call.done
  /\ call' = [call EXCEPT !.done = TRUE,
                !.rect = CropClamp(<<call.args[1], call.args[2], call.args[3], call.args[4]>>,
                                   call.args[5], call.args[6])]
  /\ UNCHANGED <<extvars, cfgvars, lifevars, sizevars, pipevars, obsvars, pix>>

\* center_crop_fit applied to its own output with the same target
CallCoverTwice ==
  /\ call.fn = "cover_twice" /\ ~call.done
  /\ LET once == center_crop_fit(Frame(0, call.args[1], call.args[2]),
                                 call.args[3], call.args[4])
     IN  call' = [call EXCEPT !.done = TRUE, !.img = once,
                    !.img2 = center_crop_fit(once, call.args[3], call.args[4])]
  /\ UNCHANGED <<extvars, cfgvars, lifevars, sizevars, pipevars, obsvars, pix>>

NextFit ==
  CallCenterCropFit \/ CallLetterbox \/ CallCoverRoi \/ CallCropClamp \/ CallCoverTwice

SpecFit == InitFit /\ [][NextFit]_vars

(***************************************************************************)
(* Claims about the geometry helpers (checked under SpecFit).              *)
(***************************************************************************)
\* C1: for every source of at least 1x1 and every target of at least 1x1,
\* center_crop_fit returns exactly H rows by W columns, and the cover fit of
\* on_tick returns a square of exactly target x target with
\* target = max(1, window width); whatever is not image content is zero
\* padding at the bottom / right (the content starts at the top-left corner).
C1_CoverFitExactSize ==
  /\ (call.fn = "center_crop_fit" /\ call.done /\ call.args[1] >= 1 /\ call.args[2] >= 1)
       => /\ call.img # Err
          /\ call.img.w = call.args[3] /\ call.img.h = call.args[4]
          /\ call.img.cx = 0 /\ call.img.cy = 0
          /\ call.img.cw <= call.img.w /\ call.img.ch <= call.img.h
  /\ (call.fn = "roi" /\ call.done /\ call.args[1] >= 1 /\ call.args[2] >= 1)
       => /\ call.img # Err
          /\ call.img.w = Max(1, call.args[3]) /\ call.img.h = Max(1, call.args[3])
          /\ call.img.cx = 0 /\ call.img.cy = 0
          /\ call.img.cw <= call.img.w /\ call.img.ch <= call.img.h

\* a cover fit whose scaled image is larger than the target in both axes (the
\* rounded-up width overshoots), cut down to the target
C1_Witness ==
  /\ call.fn = "center_crop_fit" /\ call.done
  /\ call.args = <<7, 5, 29, 16>>
  /\ call.img.w = 29 /\ call.img.h = 16
  /\ \E i \in DOMAIN call.img.ops :
       call.img.ops[i].op = "resize" /\ call.img.ops[i].a = 30 /\ call.img.ops[i].b > 16

\* C3: for every integer rect and every frame of at least 1x1 the clamped
\* rect lies inside the frame and is not empty.
C3_CropClampInFrame ==
  (call.fn = "crop" /\ call.done) =>
     LET FW == call.args[5]
         FH == call.args[6]
         r  == call.rect
     IN  /\ 0 <= r[1] /\ 0 <= r[2]
         /\ r[3] >= 1 /\ r[4] >= 1
         /\ r[1] + r[3] <= FW
         /\ r[2] + r[4] <= FH

\* the 640x480 frame with the rect (1000,1000,50,50) entirely out of bounds
C3_Witness ==
  /\ call.fn = "crop" /\ call.done
  /\ call.args = <<1000, 1000, 50, 50, 640, 480>>
  /\ call.rect = <<639, 479, 1, 1>>

\* C9: for every source of at least 1x1 and every target of at least 1x1,
\* letterbox returns exactly H x W, zero outside the scaled content, the
\* content at offset ((W-nw)//2, (H-nh)//2), opposite borders differing by at
\* most one pixel.
C9_LetterboxAlwaysFits ==
  (call.fn = "letterbox" /\ call.done /\ call.args[1] >= 1 /\ call.args[2] >= 1) =>
     LET W == call.args[3]
         H == call.args[4]
         o == call.img
     IN  /\ o # Err
         /\ o.w = W /\ o.h = H
         /\ o.cx = (W - o.cw) \div 2 /\ o.cy = (H - o.ch) \div 2
         /\ Abs(o.cx - (W - o.cx - o.cw)) <= 1
         /\ Abs(o.cy - (H - o.cy - o.ch)) <= 1

\* The pixel content of an image: its chain of operations from index i on,
\* applied to a w x h image, without the operations that copy their input
\* unchanged (cv2.resize to the size the source has, a slice that takes the
\* whole image, a pad to the size the image has).
RECURSIVE Content(_, _, _, _)
Content(ops, i, w, h) ==
  IF i > Len(ops) THEN << >>
  ELSE LET o == ops[i]
       IN  CASE o.op = "resize" ->
                  IF o.a = w /\ o.b = h THEN Content(ops, i + 1, w, h)
                  ELSE <<o>> \o Content(ops, i + 1, o.a, o.b)
             [] o.op = "slice" ->
                  IF o.a = 0 /\ o.b = 0 /\ o.c >= w /\ o.d >= h
                  THEN Content(ops, i + 1, w, h)
                  ELSE <<o>> \o Content(ops, i + 1, Max(0, Min(o.c, w) - Min(o.a, w)),
                                                    Max(0, Min(o.d, h) - Min(o.b, h)))
             [] o.op = "pad" ->
                  IF o.a = w /\ o.b = h THEN Content(ops, i + 1, w, h)
                  ELSE <<o>> \o Content(ops, i + 1, o.a, o.b)
             [] o.op = "canvas" -> <<o>> \o Content(ops, i + 1, o.a, o.b)
             [] OTHER -> <<o>> \o Content(ops, i + 1, w, h)

\* C25: cover fit is idempotent: for every image of at least one pixel and
\* every target W, H >= 1 the second application returns an image of the same
\* size and the same pixel content as the first; its resize is to the size
\* the image already has (scale 1), its crop starts at 0 and takes the whole
\* image, and it pads nothing.
C25_CoverFitIdempotent ==
  (call.fn = "cover_twice" /\ call.done /\ call.args[1] >= 1 /\ call.args[2] >= 1) =>
     LET W == call.args[3]
         H == call.args[4]
     IN  /\ call.img # Err /\ call.img2 # Err
         /\ call.img2.w = call.img.w /\ call.img2.h = call.img.h
         /\ call.img2.ops =
              call.img.ops \o <<Op("resize", W, H, 3, 0), Op("slice", 0, 0, W, H)>>
         /\ <<call.img2.cx, call.img2.cy, call.img2.cw, call.img2.ch>>
              = <<call.img.cx, call.img.cy, call.img.cw, call.img.ch>>
         /\ Content(call.img2.ops, 2, call.args[1], call.args[2])
              = Content(call.img.ops, 2, call.args[1], call.args[2])

\* a 7x5 frame covered to 29x16 (the first application resizes and crops)
\* and covered again
C25_Witness ==
  /\ call.fn = "cover_twice" /\ call.done /\ call.args = <<7, 5, 29, 16>>
  /\ call.img.w = 29 /\ call.img.h = 16
  /\ call.img2.w = 29 /\ call.img2.h = 16 /\ Len(call.img2.ops) = Len(call.img.ops) + 2

\* C26: letterbox of a 400x400 input to 1920x1080 is a 1920x1080 image
\* whose content is the whole input resized to 1080x1080 in columns
\* 420..1499 over all rows, with 420 black columns on each side.
C26_LetterboxScenario ==
  (call.fn = "letterbox" /\ call.done /\ call.args = <<400, 400, 1920, 1080>>) =>
     /\ call.img.w = 1920 /\ call.img.h = 1080
     /\ call.img.cx = 420 /\ call.img.cw = 1080
     /\ call.img.cx + call.img.cw - 1 = 1499
     /\ call.img.w - (call.img.cx + call.img.cw) = 420
     /\ call.img.cy = 0 /\ call.img.ch = 1080
     /\ call.img.ops = <<Op("frame", 0, 0, 0, 0), Op("resize", 1080, 1080, 3, 0),
                         Op("canvas", 1920, 1080, 420, 0)>>

\* the scenario's call has returned an image
C26_Witness ==
  /\ call.fn = "letterbox" /\ call.done /\ call.args = <<400, 400, 1920, 1080>>
  /\ call.img # Err /\ call.img.cw = 1080 /\ call.img.w = 1920

(***************************************************************************)
(* SpecPix: the per-pixel alpha functions applied to bounded inputs.       *)
(***************************************************************************)
Chan == (0 .. MaxChan) \cup {255}
PickChan == {0, 1, 255}
Tols == {0, 1, 2, 10, 255, 441, 442}

Pixels == { <<b, g, r>> : b \in Chan, g \in Chan, r \in Chan }
PicksA == { << >> } \cup { <<r, g, b>> : r \in PickChan, g \in PickChan, b \in PickChan }
PicksB == { << >>, <<0, 0, 0>>, <<255, 0, 1>> }

InitPix ==
  /\ \/ \E a \in 0 .. 255, sh \in {"circle", "square"}, n \in 1 .. MaxSide :
          \E px \in 0 .. n - 1, py \in 0 .. n - 1 :
             pix = [NoPixCall EXCEPT !.fn = "compose", !.alpha = a, !.shape = sh,
                                     !.size = n, !.x = px, !.y = py]
     \/ \E p \in Pixels, pa \in PicksA, ta \in Tols, pb \in PicksB, tb \in {0, 2},
           f \in {0, 1} :
             pix = [NoPixCall EXCEPT !.fn = "chroma", !.bgr = p,
                      !.ch = [ChromaDefault EXCEPT !.enabled = TRUE, !.pickA = pa, !.tolA = ta,
                                                   !.pickB = pb, !.tolB = tb, !.feather = f]]
     \/ \E n \in 1 .. MaxMaskSide :
             pix = [NoPixCall EXCEPT !.fn = "circle", !.size = n]
     \/ \E n \in {200} :
             pix = [NoPixCall EXCEPT !.fn = "circle_count", !.size = n]
  /\ InitApp
  /\ call = NoCall

\* on_tick lines 1209-1219 at one pixel, the chroma alpha given
CallCompose ==
  /\ pix.fn = "compose" /\ ~pix.done
  /\ LET m == ShapeMaskAt(pix.shape, pix.size, pix.x, pix.y)
     IN  pix' = [pix EXCEPT !.done = TRUE, !.mask = m, !.res = ComposeAlpha(pix.alpha, m)]
  /\ UNCHANGED <<extvars, cfgvars, lifevars, sizevars, pipevars, obsvars, call>>

CallBuildAlpha ==
  /\ pix.fn = "chroma" /\ ~pix.done
  /\ ~pix.ch.use_hsv /\ FeatherKernel(pix.ch.feather) < 3
  /\ pix' = [pix EXCEPT !.done = TRUE, !.res = build_alpha_mask(pix.bgr, pix.ch)]
  /\ UNCHANGED <<extvars, cfgvars, lifevars, sizevars, pipevars, obsvars, call>>

\* shape_mask = self.circle_alpha_mask(size), the whole array
CallCircleMask ==
  /\ pix.fn = "circle" /\ ~pix.done
  /\ pix' = [pix EXCEPT !.done = TRUE, !.out = CircleMask(pix.size)]
  /\ UNCHANGED <<extvars, cfgvars, lifevars, sizevars, pipevars, obsvars, call>>

\* the opaque pixels of self.circle_alpha_mask(size), counted
CallCircleCount ==
  /\ pix.fn = "circle_count" /\ ~pix.done
  /\ pix' = [pix EXCEPT !.done = TRUE, !.res = OpaqueCount(pix.size)]
  /\ UNCHANGED <<extvars, cfgvars, lifevars, sizevars, pipevars, obsvars, call>>

NextPix == CallCompose \/ CallBuildAlpha \/ CallCircleMask \/ CallCircleCount

SpecPix == InitPix /\ [][NextPix]_vars

(***************************************************************************)
(* Claims about the per-pixel functions (checked under SpecPix).           *)
(***************************************************************************)
\* C2: the final alpha of a pixel is (alpha * shapeMask) // 255 computed
\* without wrap-around: it is in 0..255, it is 255 only if both factors are
\* 255, it is 0 whenever a factor is 0, and it is 0 for every pixel outside
\* the circle whatever the chroma alpha.
C2_AlphaComposition ==
  (pix.fn = "compose" /\ pix.done) =>
     LET insideCircle ==
           (2 * pix.x - (pix.size - 1)) * (2 * pix.x - (pix.size - 1))
             + (2 * pix.y - (pix.size - 1)) * (2 * pix.y - (pix.size - 1))
               <= pix.size * pix.size
     IN  /\ pix.res = (pix.alpha * pix.mask) \div 255
         /\ pix.res \in 0 .. 255
         /\ pix.res = 255 => (pix.alpha = 255 /\ pix.mask = 255)
         /\ (pix.alpha = 0 \/ pix.mask = 0) => pix.res = 0
         /\ (pix.shape = "circle" /\ ~insideCircle) => pix.res = 0
         /\ (pix.shape = "circle" /\ insideCircle) => pix.res = pix.alpha

\* a fully opaque chroma alpha inside the circle, where the 16-bit product is
\* 65025
C2_Witness ==
  /\ pix.fn = "compose" /\ pix.done
  /\ pix.shape = "circle" /\ pix.size = 4 /\ pix.x = 1 /\ pix.y = 2
  /\ pix.alpha = 255 /\ pix.mask = 255 /\ pix.res = 255

\* squared Euclidean distance between a BGR pixel and an RGB reference
SqDistRgb(bgr, pick) ==
  (bgr[3] - pick[1]) * (bgr[3] - pick[1]) + (bgr[2] - pick[2]) * (bgr[2] - pick[2])
    + (bgr[1] - pick[3]) * (bgr[1] - pick[3])

\* C10: in reference-colour mode without feathering a pixel's alpha is 0 iff
\* its Euclidean distance to at least one set reference is <= that
\* reference's tolerance, and 255 otherwise; unset references match nothing.
C10_ReferenceKey ==
  (pix.fn = "chroma" /\ pix.done) =>
     LET matchA == pix.ch.pickA # None
                     /\ SqDistRgb(pix.bgr, pix.ch.pickA) <= pix.ch.tolA * pix.ch.tolA
         matchB == pix.ch.pickB # None
                     /\ SqDistRgb(pix.bgr, pix.ch.pickB) <= pix.ch.tolB * pix.ch.tolB
     IN  /\ pix.res \in {0, 255}
         /\ pix.res = 0 <=> (matchA \/ matchB)
         /\ (pix.ch.pickA = None /\ pix.ch.pickB = None) => pix.res = 255

\* a pixel keyed out by reference B alone, the colour channels not symmetric
C10_Witness ==
  /\ pix.fn = "chroma" /\ pix.done
  /\ pix.bgr = <<1, 0, 255>> /\ pix.ch.pickB = <<255, 0, 1>> /\ pix.ch.tolB = 0
  /\ pix.ch.pickA = <<0, 0, 0>> /\ pix.ch.tolA = 2
  /\ pix.res = 0

\* C11: with fixed pixel, references and no feathering, raising tolA or tolB
\* never removes a pixel from the background: alpha 0 at the lower tolerance
\* is alpha 0 at every higher one.
C11_ToleranceMonotonic ==
  (pix.fn = "chroma" /\ pix.done /\ pix.res = 0) =>
     \A t \in Tols :
        /\ t >= pix.ch.tolA => build_alpha_mask(pix.bgr, [pix.ch EXCEPT !.tolA = t]) = 0
        /\ t >= pix.ch.tolB => build_alpha_mask(pix.bgr, [pix.ch EXCEPT !.tolB = t]) = 0

\* a pixel at distance 1 from reference A, background from tolerance 1 on and
\* foreground below it
C11_Witness ==
  /\ pix.fn = "chroma" /\ pix.done /\ pix.res = 0
  /\ pix.bgr = <<0, 0, 0>> /\ pix.ch.pickA = <<0, 0, 1>> /\ pix.ch.tolA = 1
  /\ pix.ch.pickB = None
  /\ build_alpha_mask(pix.bgr, [pix.ch EXCEPT !.tolA = 0]) = 255
  /\ build_alpha_mask(pix.bgr, [pix.ch EXCEPT !.tolA = 442]) = 0

\* C12: with use_hsv false and no feathering, a pixel equal to pickA (pickA
\* stored as RGB, the pixel as BGR) gets alpha 0 for every tolA >= 0,
\* tolA = 0 included; so a frame of that one colour is keyed out everywhere.
C12_SolidPickKeyedOut ==
  (/\ pix.fn = "chroma" /\ pix.done
   /\ ~pix.ch.use_hsv /\ pix.ch.feather = 0
   /\ pix.ch.pickA # None
   /\ pix.bgr = <<pix.ch.pickA[3], pix.ch.pickA[2], pix.ch.pickA[1]>>
   /\ pix.ch.tolA >= 0)
    => pix.res = 0

\* the all-green scenario (tolA = 10) is among the cases
C12_GreenScenario ==
  /\ pix.fn = "chroma" /\ pix.done /\ pix.ch.feather = 0
  /\ pix.bgr = <<0, 255, 0>> /\ pix.ch.pickA = <<0, 255, 0>> /\ pix.ch.tolA = 10
  /\ pix.ch.pickB = None /\ pix.res = 0

\* a colour whose channels are all different, at tolerance 0, with no second
\* reference
C12_Witness ==
  /\ pix.fn = "chroma" /\ pix.done /\ pix.ch.feather = 0
  /\ pix.bgr = <<1, 0, 255>> /\ pix.ch.pickA = <<255, 0, 1>> /\ pix.ch.tolA = 0
  /\ pix.ch.pickB = None /\ pix.res = 0

\* C23: the circle mask is unchanged by a rotation of 90 degrees
\* (mask[y][x] = mask[x][size-1-y]), every value is 0 or 255, and a pixel is
\* 255 exactly when (x-c)^2 + (y-c)^2 <= (size/2)^2 for c = (size-1)/2, which
\* in quarters is (2x-(size-1))^2 + (2y-(size-1))^2 <= size^2.
C23_CircleSymmetric ==
  (pix.fn = "circle" /\ pix.done) =>
     \A y \in 0 .. pix.size - 1, x \in 0 .. pix.size - 1 :
        LET dx == 2 * x - (pix.size - 1)
            dy == 2 * y - (pix.size - 1)
        IN  /\ pix.out[y][x] = pix.out[x][pix.size - 1 - y]
            /\ pix.out[y][x] \in {0, 255}
            /\ pix.out[y][x] = 255 <=> dx * dx + dy * dy <= pix.size * pix.size

\* a mask with cut corners: side 8, corner transparent, edge midpoints and
\* centre opaque
C23_Witness ==
  /\ pix.fn = "circle" /\ pix.done /\ pix.size = 8
  /\ pix.out[0][0] = 0 /\ pix.out[0][3] = 255 /\ pix.out[4][7] = 255
  /\ pix.out[7][7] = 0 /\ pix.out[4][4] = 255

\* C24: for side 200 the circle mask has within 1% of 31416 opaque pixels.
C24_CircleArea ==
  (pix.fn = "circle_count" /\ pix.done /\ pix.size = 200) =>
     100 * Abs(pix.res - 31416) < 31416

\* the count for side 200
C24_Witness ==
  pix.fn = "circle_count" /\ pix.done /\ pix.size = 200 /\ pix.res = 31428

(***************************************************************************)
(* SpecKey: build_alpha_mask applied to whole images (HSV keying, the      *)
(* feather blur, references outside 0..255) and the sanitisation of        *)
(* line 1261 applied to every kind of float32 value.                       *)
(***************************************************************************)
\* largest feather drawn (its kernel is at most 7, where OpenCV uses fixed
\* tables)
MaxFeather == 5

Green == <<0, 255, 0>>
HsvPixels == {Green, <<60, 200, 50>>, <<255, 255, 255>>, <<10, 20, 40>>}
HueBounds == {0, 35, 60, 85, 179}
SatBounds == {0, 40, 255}
ValBounds == {0, 40, 255}
WildPicks ==
  {<<-32768, -32768, -32768>>, <<-32768, 0, 32767>>, <<32767, 32767, 32767>>, Green}
Dists == {NonFin("nan"), NonFin("posinf"), NonFin("neginf"), Fin(0), Fin(100), Fin(255 * 255)}
SanTols == {-1, 0, 30, 254, 255, 442}

Rows(pixels) == { <<a, b, c>> : a \in pixels, b \in pixels, c \in pixels }

PendingKey(img, ch, long32) ==
  [NoPixCall EXCEPT !.fn = "alpha_img", !.img = img, !.ch = ch, !.long32 = long32]

InitKey ==
  /\ \/ \E img \in Rows(HsvPixels), hl \in HueBounds, hu \in HueBounds,
           sl \in SatBounds, su \in SatBounds, vl \in ValBounds, vu \in ValBounds :
          pix = PendingKey(img, [ChromaDefault EXCEPT !.enabled = TRUE, !.use_hsv = TRUE,
                                   !.h_min = hl, !.h_max = hu, !.s_min = sl, !.s_max = su,
                                   !.v_min = vl, !.v_max = vu, !.feather = 0], FALSE)
     \/ \E img \in Rows({Green, <<0, 0, 255>>}), f \in -1 .. MaxFeather, hsv \in BOOLEAN :
          pix = PendingKey(img, [ChromaDefault EXCEPT !.enabled = TRUE, !.use_hsv = hsv,
                                   !.pickA = Green, !.tolA = 10, !.feather = f], FALSE)
     \/ \E img \in Rows({<<0, 0, 0>>, <<255, 255, 255>>}), pa \in WildPicks,
           ta \in {0, 30, 255}, l32 \in BOOLEAN :
          pix = PendingKey(img, [ChromaDefault EXCEPT !.enabled = TRUE, !.pickA = pa,
                                   !.tolA = ta, !.feather = 0], l32)
     \/ \E d \in Dists, t \in SanTols :
          pix = [NoPixCall EXCEPT !.fn = "nan_to_num", !.d = d, !.tol = t]
  /\ InitApp
  /\ call = NoCall

\* build_alpha_mask(bgr_img)
CallBuildAlphaImg ==
  /\ pix.fn = "alpha_img" /\ ~pix.done
  /\ FeatherKernel(pix.ch.feather) <= 7
  /\ pix' = [pix EXCEPT !.done = TRUE,
                        !.bg = BgMask(pix.img, pix.ch, pix.long32),
                        !.out = build_alpha_mask_img(pix.img, pix.ch, pix.long32)]
  /\ UNCHANGED <<extvars, cfgvars, lifevars, sizevars, pipevars, obsvars, call>>

\* lines 1261-1262 on one distance
CallNanToNum ==
  /\ pix.fn = "nan_to_num" /\ ~pix.done
  /\ pix' = [pix EXCEPT !.done = TRUE, !.san = nan_to_num(pix.d),
                        !.match = LeqTol(nan_to_num(pix.d), pix.tol)]
  /\ UNCHANGED <<extvars, cfgvars, lifevars, sizevars, pipevars, obsvars, call>>

NextKey == CallBuildAlphaImg \/ CallNanToNum

SpecKey == InitKey /\ [][NextKey]_vars

(***************************************************************************)
(* Claims about build_alpha_mask on images (checked under SpecKey).        *)
(***************************************************************************)
\* C13: with use_hsv true and no feathering a pixel's alpha is 0 iff
\* h_min <= H <= h_max, s_min <= S <= s_max and v_min <= V <= v_max, all
\* bounds inclusive, and 255 otherwise; when a min exceeds its max no pixel
\* is keyed out.
C13_HsvKey ==
  (pix.fn = "alpha_img" /\ pix.done /\ pix.ch.use_hsv /\ pix.ch.feather = 0) =>
     \A x \in 1 .. Len(pix.img) :
        LET hsv == BgrToHsv(pix.img[x])
            inside == /\ pix.ch.h_min <= hsv[1] /\ hsv[1] <= pix.ch.h_max
                      /\ pix.ch.s_min <= hsv[2] /\ hsv[2] <= pix.ch.s_max
                      /\ pix.ch.v_min <= hsv[3] /\ hsv[3] <= pix.ch.v_max
        IN  /\ pix.out[x] = (IF inside THEN 0 ELSE 255)
            /\ (\/ pix.ch.h_min > pix.ch.h_max \/ pix.ch.s_min > pix.ch.s_max
                \/ pix.ch.v_min > pix.ch.v_max) => pix.out[x] = 255

\* pure green (H 60, S 255, V 255) sitting on every bound at once, next to
\* two pixels outside the ranges
C13_Witness ==
  /\ pix.fn = "alpha_img" /\ pix.done /\ pix.ch.use_hsv /\ pix.ch.feather = 0
  /\ pix.img = <<Green, <<255, 255, 255>>, <<10, 20, 40>>>>
  /\ BgrToHsv(Green) = <<60, 255, 255>>
  /\ pix.ch.h_min = 60 /\ pix.ch.h_max = 60
  /\ pix.ch.s_min = 255 /\ pix.ch.s_max = 255
  /\ pix.ch.v_min = 255 /\ pix.ch.v_max = 255
  /\ pix.out = <<0, 255, 255>>

\* the alpha of a background mask: cv2.subtract(255, mask)
AlphaOf(mask) == [x \in 1 .. Len(mask) |-> 255 - mask[x]]

\* the nearest odd integer at or above f
OddAtLeast(f) == IF f % 2 = 1 THEN f ELSE f + 1

\* C14 as stated: the mask is smoothed iff the configured feather is >= 3,
\* with a kernel equal to the nearest odd integer at or above it; below 3
\* nothing is smoothed.
C14_BlurFromThree ==
  (pix.fn = "alpha_img" /\ pix.done) =>
     pix.out = (IF pix.ch.feather >= 3
                THEN AlphaOf(GaussianBlur(pix.bg, OddAtLeast(pix.ch.feather)))
                ELSE AlphaOf(pix.bg))

\* C14: the mask is smoothed iff the configured feather is >= 2 (2 is
\* normalised to the kernel 3), with a kernel equal to the nearest odd
\* integer at or above the configured value, never an even one; a feather of
\* 0 or 1 (or a negative one) smooths nothing and the alpha stays binary.
C14_BlurFromTwo ==
  (pix.fn = "alpha_img" /\ pix.done) =>
     /\ pix.out = (IF pix.ch.feather >= 2
                   THEN AlphaOf(GaussianBlur(pix.bg, OddAtLeast(pix.ch.feather)))
                   ELSE AlphaOf(pix.bg))
     /\ pix.ch.feather <= 1 => \A x \in 1 .. Len(pix.out) : pix.out[x] \in {0, 255}

\* feather 2 softens the edge between a keyed and an unkeyed pixel
C14_Witness ==
  /\ pix.fn = "alpha_img" /\ pix.done /\ ~pix.ch.use_hsv
  /\ pix.ch.feather = 2
  /\ pix.img = <<Green, <<0, 0, 255>>, <<0, 0, 255>>>>
  /\ pix.bg = <<255, 0, 0>>
  /\ pix.out = <<127, 191, 255>>

MaxMissShort == 2

PipeFrames == {Frame(1, 640, 480), Frame(2, 3, 4), Frame(3, 0, 480)}
PipeWidths == {49, 120, 360}
PipeVcamSizes == {<<1920, 1080>>, <<4, 3>>, <<1, 1>>}
\* crop off; a crop inside the frame; one far outside; a rect of three
\* numbers; a rect with no width and a negative height
PipeCrops ==
  {CropDefault, [enabled |-> TRUE, rect |-> <<1, 0, 2, 2>>],
   [enabled |-> TRUE, rect |-> <<1000, 1000, 50, 50>>],
   [enabled |-> TRUE, rect |-> <<1, 2, 3>>],
   [enabled |-> TRUE, rect |-> <<1, 2, 0, -5>>]}

InitPipe ==
  \E wm \in BOOLEAN, vm \in BOOLEAN, fit \in {"fill", "fit"}, key \in BOOLEAN,
     cr \in PipeCrops, ww \in PipeWidths, vs \in PipeVcamSizes,
     von \in BOOLEAN, co \in BOOLEAN :
    /\ state = [AppStateDefault EXCEPT !.window_mirror = wm, !.vcam_mirror = vm,
                                       !.vcam_fit = fit, !.vcam_enabled = von,
                                       !.window_shape = IF key THEN "square" ELSE "circle",
                                       !.circle_diameter = ww]
    /\ chroma = [ChromaDefault EXCEPT !.enabled = key]
    /\ crop = cr
    /\ cap_open = co
    /\ timer_active = TRUE
    /\ vcam = IF von THEN "open" ELSE "none"
    /\ act_vcam_enable = von
    /\ tray_act_show = TRUE
    /\ visible = TRUE
    /\ win_w = ww
    /\ vcam_size = vs
    /\ no_frame_count = 0
    /\ last_frame_bgr = NoImage
    /\ current_qpix = NoPix
    /\ ev = EvNone
    /\ send_failed = FALSE
    /\ pick_target = "none"
    /\ vcam_dev = IF von THEN NewDevice ELSE NoDevice
    /\ app = "running"
    /\ config_file = EmptyFile
    /\ call = NoCall
    /\ pix = NoPixCall

NextPipe == on_tick(PipeFrames, MaxMissShort)

SpecPipe == InitPipe /\ [][NextPipe]_vars

(***************************************************************************)
(* SpecMiss: ticks with the default configuration and a long run of        *)
(* missed frames; the camera can be switched off and on.                   *)
(***************************************************************************)
\* bound of _no_frame_count: past the second multiple of 100
MaxMiss == 201

MissFrames == {Frame(1, 640, 480)}

TickLong == on_tick(MissFrames, MaxMiss)

NextMiss == TickLong \/ CamToggleClicked \/ TrayShowClicked

SpecMiss == InitDefaults /\ [][NextMiss]_vars

(***************************************************************************)
(* Spec: the window's lifecycle with the virtual camera.                   *)
(***************************************************************************)
\* after __init__ (set_vcam_enabled applies the loaded flag) and main (which
\* unchecks the tray item when started hidden)
InitSpec ==
  \E enabled \in BOOLEAN, ok1 \in BOOLEAN, ok2 \in BOOLEAN, hidden \in BOOLEAN :
    LET L0 == [cap_open |-> TRUE, timer_active |-> TRUE, vcam |-> "none",
               vcam_enabled |-> enabled, act |-> FALSE, tray |-> TRUE, visible |-> ~hidden,
               dev |-> NoDevice]
        L1 == set_vcam_enabled(L0, enabled, ok1, ok2)
        L2 == IF hidden
              THEN on_tray_show_toggled([L1 EXCEPT !.tray = FALSE], FALSE, FALSE, FALSE)
              ELSE L1
    IN  /\ state = [AppStateDefault EXCEPT !.vcam_enabled = L2.vcam_enabled]
        /\ chroma = ChromaDefault
        /\ crop = CropDefault
        /\ cap_open = L2.cap_open
        /\ timer_active = L2.timer_active
        /\ vcam = L2.vcam
        /\ act_vcam_enable = L2.act
        /\ tray_act_show = L2.tray
        /\ visible = L2.visible
        /\ win_w = 360
        /\ vcam_size = <<1920, 1080>>
        /\ no_frame_count = 0
        /\ last_frame_bgr = NoImage
        /\ current_qpix = NoPix
        /\ ev = EvNone
        /\ send_failed = FALSE
        /\ pick_target = "none"
        /\ vcam_dev = L2.dev
        /\ app = "running"
        /\ config_file = EmptyFile
        /\ call = NoCall
        /\ pix = NoPixCall

Tick == on_tick(MissFrames, MaxMissShort)

Next == Tick \/ TrayShowClicked \/ VcamMenuClicked \/ VcamHotkey \/ CamToggleClicked

Spec == InitSpec /\ [][Next]_vars


(***************************************************************************)
(* load_config and SpecLoad: start-up from a saved configuration file.     *)
(* A saved group is absent, is a mapping from field names to values        *)
(* ("map"), or is a JSON value that is no mapping and makes the membership *)
(* test or the lookup raise ("bad": a number, null, a list naming a field).*)
(***************************************************************************)
Absent == [kind |-> "absent", m |-> << >>]
Bad == [kind |-> "bad", m |-> << >>]
Map(m) == [kind |-> "map", m |-> m]

\* the merge that also takes over the fields the dataclass does not have
LoadGroup_AllKeys(obj, g) ==
  [k \in (DOMAIN obj) \cup (DOMAIN g.m) |-> IF k \in DOMAIN g.m THEN g.m[k] ELSE obj[k]]

\* for k in vars(Dataclass()).keys(): if k in group: setattr(obj, k, group[k])
LoadGroup(obj, g) ==
  [k \in DOMAIN obj |-> IF k \in DOMAIN g.m THEN g.m[k] ELSE obj[k]]

\* load_config on the objects st, chr, cr: <<state, chroma, crop>> after it.
\* file is "none" (no file could be created), "invalid" (json.load raises)
\* or "ok"; an exception ends the load where it is raised and is logged
load_config(data, st, chr, cr) ==
  IF data.file # "ok" THEN <<st, chr, cr>>
  ELSE LET raised1 == data.state.kind = "bad"
           raised2 == raised1 \/ data.chroma.kind = "bad"
           raised3 == raised2 \/ data.crop.kind = "bad"
           st1  == IF data.state.kind = "map" THEN LoadGroup(st, data.state) ELSE st
           chr1 == IF ~raised1 /\ data.chroma.kind = "map"
                   THEN LoadGroup(chr, data.chroma) ELSE chr
           cr1  == IF ~raised2 /\ data.crop.kind = "map"
                   THEN LoadGroup(cr, data.crop) ELSE cr
       IN  <<st1, chr1, cr1>>

SavedStates ==
  {Absent, Bad, Map(<< >>),
   Map([vcam_enabled |-> TRUE, circle_diameter |-> 49, theme |-> 1]),
   Map([window_mirror |-> TRUE, vcam_fit |-> "fit", window_shape |-> "square"]),
   Map(AppStateDefault)}
SavedChromas ==
  {Absent, Bad, Map(<< >>),
   Map([enabled |-> TRUE, tolA |-> 10, pickA |-> <<0, 255, 0>>, junk |-> 0]),
   Map([tolA |-> -5, tolB |-> 300, h_max |-> 999, s_min |-> -1, feather |-> -3])}
SavedCrops ==
  {Absent, Bad, Map(<< >>),
   Map([enabled |-> TRUE, rect |-> <<1, 2, 3>>]),
   Map([rect |-> <<1, 0, 2, 2>>, extra |-> 5])}

SavedFile(kind, st, chr, cr) == [file |-> kind, state |-> st, chroma |-> chr, crop |-> cr]

\* __init__ up to line 726, the configuration file as it is found
InitLoad ==
  /\ \/ \E kind \in {"none", "invalid"} :
          call = [NoCall EXCEPT !.fn = "load_config",
                                !.args = SavedFile(kind, Absent, Absent, Absent)]
     \/ \E st \in SavedStates, chr \in SavedChromas, cr \in SavedCrops :
          call = [NoCall EXCEPT !.fn = "load_config", !.args = SavedFile("ok", st, chr, cr)]
  /\ InitApp
  /\ pix = NoPixCall

\* self.load_config() (line 728)
LoadConfig ==
  /\ call.fn = "load_config" /\ ~call.done
  /\ LET loaded == load_config(call.args, state, chroma, crop)
     IN  /\ state' = loaded[1]
         /\ chroma' = loaded[2]
         /\ crop' = loaded[3]
  /\ call' = [call EXCEPT !.done = TRUE]
  /\ UNCHANGED <<extvars, lifevars, sizevars, pipevars, obsvars, pix>>

\* the rest of __init__ and main: the window takes the saved diameter, the
\* saved vcam flag is applied, the window is shown or started hidden
InitRest ==
  /\ call.fn = "load_config" /\ call.done
  /\ \E ok1 \in BOOLEAN, ok2 \in BOOLEAN, hidden \in BOOLEAN :
       LET L1 == set_vcam_enabled(Life, state.vcam_enabled, ok1, ok2)
       IN  SetLife(IF hidden
                   THEN on_tray_show_toggled([L1 EXCEPT !.tray = FALSE], FALSE, FALSE, FALSE)
                   ELSE L1)
  /\ win_w' = state.circle_diameter
  /\ call' = [call EXCEPT !.fn = "__init__"]
  /\ UNCHANGED <<pick_target, app, config_file, chroma, crop, vcam_size, pipevars, obsvars, pix>>

\* the timer ticks once the window is constructed
TickAfterInit == call.fn = "__init__" /\ on_tick(MissFrames, MaxMissShort)

\* and the tray can hide and show the window
TrayAfterInit == call.fn = "__init__" /\ TrayShowClicked

NextLoad == LoadConfig \/ InitRest \/ TickAfterInit \/ TrayAfterInit

SpecLoad == InitLoad /\ [][NextLoad]_vars

(***************************************************************************)
(* Claims about load_config (checked under SpecLoad).                      *)
(***************************************************************************)
\* C19: whatever the saved record holds, once load_config has run (and so
\* before the first tick) tolA and tolB are in 0..255, h_min and h_max in
\* 0..179, s_min, s_max, v_min, v_max in 0..255 and feather >= 0.
C19_LoadedRangesValid ==
  (call.fn \in {"load_config", "__init__"} /\ (call.fn = "load_config" => call.done)) =>
     /\ chroma.tolA \in 0 .. 255 /\ chroma.tolB \in 0 .. 255
     /\ chroma.h_min \in 0 .. 179 /\ chroma.h_max \in 0 .. 179
     /\ chroma.s_min \in 0 .. 255 /\ chroma.s_max \in 0 .. 255
     /\ chroma.v_min \in 0 .. 255 /\ chroma.v_max \in 0 .. 255
     /\ chroma.feather >= 0

\* the value load_config leaves in field k of a group whose object started
\* as obj, by the rule of C20
MergedField(obj, g, k) == IF g.kind = "map" /\ k \in DOMAIN g.m THEN g.m[k] ELSE obj[k]

LoadReaches(data, group) ==
  /\ data.file = "ok"
  /\ group = "state" => data.state.kind # "bad"
  /\ group = "chroma" => (data.state.kind # "bad" /\ data.chroma.kind # "bad")
  /\ group = "crop" =>
       (data.state.kind # "bad" /\ data.chroma.kind # "bad" /\ data.crop.kind # "bad")

scale_circle_Wrap(diameter, direction) ==
  120 + ((diameter + 20 * direction - 120) % (1080 - 120 + 1))

\* the new state.circle_diameter: int(clamp(diameter + 20 * direction, 120, 1080)),
\* where int() is applied to an integer
scale_circle(diameter, direction) == clamp(diameter + 20 * direction, 120, 1080)

\* the diameters in the file: in range, at the bounds and out of range
LoadedDiameters ==
  {-5000, -20, 0, 100, 119, 120, 121, 130, 360, 365, 1079, 1080, 1081, 1100, 5000}

InitScale ==
  /\ \E d \in LoadedDiameters :
       /\ call = [NoCall EXCEPT !.fn = "loaded", !.args = <<d>>, !.done = TRUE]
       /\ state = [AppStateDefault EXCEPT !.circle_diameter = d]
       /\ win_w = Max(0, d)
  /\ chroma = ChromaDefault
  /\ crop = CropDefault
  /\ cap_open = TRUE
  /\ timer_active = TRUE
  /\ vcam = "none"
  /\ act_vcam_enable = FALSE
  /\ tray_act_show = TRUE
  /\ visible = TRUE
  /\ vcam_size = <<1920, 1080>>
  /\ no_frame_count = 0
  /\ last_frame_bgr = NoImage
  /\ current_qpix = NoPix
  /\ ev = EvNone
  /\ send_failed = FALSE
  /\ pick_target = "none"
  /\ vcam_dev = NoDevice
  /\ app = "running"
  /\ config_file = EmptyFile
  /\ pix = NoPixCall

\* scale_circle(direction): the diameter is stored and the window resized;
\* call keeps the diameter before the step and the number of steps so far
ScaleCircle(direction) ==
  /\ visible
  /\ LET d == scale_circle(state.circle_diameter, direction)
     IN  /\ state' = [state EXCEPT !.circle_diameter = d]
         /\ win_w' = d
  /\ call' = [NoCall EXCEPT !.fn = "scale_circle",
                            !.args = <<state.circle_diameter, direction>>,
                            !.done = TRUE]
  /\ ev' = Ev("scale_circle")
  /\ UNCHANGED <<extvars, chroma, crop, lifevars, vcam_size, pipevars, send_failed, pix>>

\* hotkeys + and =
ScaleUp == ScaleCircle(1)

\* hotkey -
ScaleDown == ScaleCircle(-1)

NextScale == ScaleUp \/ ScaleDown

SpecScale == InitScale /\ [][NextScale]_vars

(***************************************************************************)
(* Claims about scale_circle (checked under SpecScale).                    *)
(***************************************************************************)
\* C29: after scale_circle(d), d = +1 or -1, from any starting diameter
\* (also one loaded out of range), state.circle_diameter is in 120..1080 and
\* equals clamp(old + 20*d, 120, 1080); from the first step on every step
\* starts in range and ends in range, and a step past a bound stays at the
\* bound instead of wrapping.
C29_ScaleStaysInRange ==
  (call.fn = "scale_circle") =>
     LET old == call.args[1]
         d   == call.args[2]
         new == state.circle_diameter
     IN  /\ new \in 120 .. 1080
         /\ new = (IF old + 20 * d < 120 THEN 120
                   ELSE IF old + 20 * d > 1080 THEN 1080 ELSE old + 20 * d)
         /\ (old >= 1080 /\ d = 1) => new = 1080
         /\ (old <= 120 /\ d = -1) => new = 120
         /\ win_w = new

\* a step up at the upper bound
C29_Witness ==
  /\ call.fn = "scale_circle" /\ call.args = <<1080, 1>>
  /\ state.circle_diameter = 1080

(***************************************************************************)
(* ChromaDialog.on_preview_click and SpecPick: the chroma dialog is open   *)
(* on a running window.                                                    *)
(***************************************************************************)
\* the BGR value of pixel (fx, fy) of a camera frame; frames differ by their
\* id, and the three channels of a pixel differ
FramePixel(frame, fx, fy) ==
  <<(4 * fx + frame.ops[1].a) % 256, (8 * fy + 1) % 256, (200 + fx + fy) % 256>>

\* where update_preview and on_preview_click place the frame in a label of
\* lw x lh pixels (lines 543-548)
PreviewGeom(frame, lw, lh) ==
  LET sc     == FitScale(frame.w, frame.h, lw, lh)
      disp_w == IntMulDiv(frame.w, sc[1], sc[2])
      disp_h == IntMulDiv(frame.h, sc[1], sc[2])
  IN  [sc |-> sc, disp_w |-> disp_w, disp_h |-> disp_h,
       off_x |-> (lw - disp_w) \div 2, off_y |-> (lh - disp_h) \div 2]

\* the handler's answer when it returns early: nothing changes
PickNothing(target, ch) == [target |-> target, chroma |-> ch, hit |-> FALSE, pos |-> << >>]

\* on_preview_click storing the pixel as it is in the frame, blue first
on_preview_click_NoSwap(target, frame, lw, lh, ex, ey, ch) ==
  IF target = "none" \/ frame = NoImage \/ frame.w < 1 \/ frame.h < 1
  THEN PickNothing(target, ch)
  ELSE LET g == PreviewGeom(frame, lw, lh)
           x == ex - g.off_x
           y == ey - g.off_y
       IN  IF x < 0 \/ y < 0 \/ x >= g.disp_w \/ y >= g.disp_h THEN PickNothing(target, ch)
           ELSE LET fx  == IntDivQuot(x, g.sc[1], g.sc[2])
                    fy  == IntDivQuot(y, g.sc[1], g.sc[2])
                    bgr == FramePixel(frame, fx, fy)
                IN  IF fx >= frame.w \/ fy >= frame.h THEN PickNothing(target, ch)
                    ELSE [target |-> "none",
                          chroma |-> IF target = "A" THEN [ch EXCEPT !.pickA = bgr]
                                     ELSE [ch EXCEPT !.pickB = bgr],
                          hit |-> TRUE, pos |-> <<fx, fy>>]

\* on_preview_click(event) for a click at (ex, ey) of the preview label:
\* target is _pick_target, frame is get_frame(), ch the ChromaConfig.  An
\* index outside the frame would raise at line 553 and change nothing.
on_preview_click(target, frame, lw, lh, ex, ey, ch) ==
  IF target = "none" \/ frame = NoImage \/ frame.w < 1 \/ frame.h < 1
  THEN PickNothing(target, ch)
  ELSE LET g == PreviewGeom(frame, lw, lh)
           x == ex - g.off_x
           y == ey - g.off_y
       IN  IF x < 0 \/ y < 0 \/ x >= g.disp_w \/ y >= g.disp_h THEN PickNothing(target, ch)
           ELSE LET fx  == IntDivQuot(x, g.sc[1], g.sc[2])
                    fy  == IntDivQuot(y, g.sc[1], g.sc[2])
                    bgr == FramePixel(frame, fx, fy)
                    rgb == <<bgr[3], bgr[2], bgr[1]>>
                IN  IF fx >= frame.w \/ fy >= frame.h THEN PickNothing(target, ch)
                    ELSE [target |-> "none",
                          chroma |-> IF target = "A" THEN [ch EXCEPT !.pickA = rgb]
                                     ELSE [ch EXCEPT !.pickB = rgb],
                          hit |-> TRUE, pos |-> <<fx, fy>>]

\* frames on_tick has left in last_frame_bgr (line 1180) when the click arrives
PickFrames == {Frame(1, 58, 29), Frame(2, 3, 4)}

\* sizes of the preview label
PickLabels == {<<10, 10>>}

\* positions of the click in the label: on the image, on the bars beside it
\* and outside the label
PickClicks == {<<5, 4>>, <<0, 3>>, <<5, 0>>, <<-1, 4>>, <<10, 4>>}

InitPick ==
  /\ \E pa \in {None, <<9, 9, 9>>} : chroma = [ChromaDefault EXCEPT !.pickA = pa]
  /\ last_frame_bgr \in {NoImage} \cup PickFrames
  /\ state = AppStateDefault
  /\ crop = CropDefault
  /\ cap_open = TRUE
  /\ timer_active = TRUE
  /\ vcam = "none"
  /\ act_vcam_enable = FALSE
  /\ tray_act_show = TRUE
  /\ visible = TRUE
  /\ win_w = 360
  /\ vcam_size = <<1920, 1080>>
  /\ no_frame_count = 0
  /\ current_qpix = NoPix
  /\ ev = EvNone
  /\ send_failed = FALSE
  /\ pick_target = "none"
  /\ vcam_dev = NoDevice
  /\ app = "running"
  /\ config_file = EmptyFile
  /\ call = NoCall
  /\ pix = NoPixCall

\* the buttons "Пипетка A" and "Пипетка B": start_pick(which)
StartPick ==
  /\ \E which \in {"A", "B"} : pick_target' = which
  /\ call' = [NoCall EXCEPT !.fn = "start_pick"]
  /\ UNCHANGED <<cfgvars, lifevars, sizevars, pipevars, obsvars, pix, vcam_dev, app,
                 config_file>>

\* a mouse press on the preview label
PreviewClick ==
  /\ \E lab \in PickLabels, click \in PickClicks :
       LET ex == click[1]
           ey == click[2]
           r  == on_preview_click(pick_target, last_frame_bgr, lab[1], lab[2], ex, ey, chroma)
       IN  /\ chroma' = r.chroma
           /\ pick_target' = r.target
           /\ call' = [NoCall EXCEPT !.fn = "on_preview_click",
                          !.args = [target |-> pick_target, frame |-> last_frame_bgr,
                                    lw |-> lab[1], lh |-> lab[2], x |-> ex, y |-> ey,
                                    chroma |-> chroma],
                          !.done = TRUE,
                          !.rect = r.pos]
  /\ UNCHANGED <<state, crop, lifevars, sizevars, pipevars, obsvars, pix, vcam_dev, app,
                 config_file>>

\* the other controls of the dialog that write into ChromaConfig: the
\* tolerance spin boxes and the HSV check box (lines 474-475)
DialogEdit ==
  /\ \/ chroma' = [chroma EXCEPT !.tolA = 30]
     \/ chroma' = [chroma EXCEPT !.use_hsv = TRUE]
  /\ chroma' # chroma
  /\ call' = [NoCall EXCEPT !.fn = "dialog_edit"]
  /\ UNCHANGED <<state, crop, lifevars, sizevars, pipevars, obsvars, pix, extvars>>

NextPick == StartPick \/ PreviewClick \/ DialogEdit

SpecPick == InitPick /\ [][NextPick]_vars

(***************************************************************************)
(* Claims about the colour pick (checked under SpecPick).                  *)
(***************************************************************************)
\* the click (x, y) of the label falls on the displayed frame
OnImage(a) ==
  /\ a.frame # NoImage
  /\ LET g == PreviewGeom(a.frame, a.lw, a.lh)
     IN  /\ g.off_x <= a.x /\ a.x < g.off_x + g.disp_w
         /\ g.off_y <= a.y /\ a.y < g.off_y + g.disp_h

\* what the preview click kept in c has left behind: ch is the ChromaConfig
\* and target the _pick_target after it
ClickOutcome(c, ch, target) ==
  LET a   == c.args
      hit == a.target # "none" /\ OnImage(a)
  IN  /\ hit =>
           LET fx  == c.rect[1]
               fy  == c.rect[2]
               bgr == FramePixel(a.frame, fx, fy)
               rgb == <<bgr[3], bgr[2], bgr[1]>>
               g   == PreviewGeom(a.frame, a.lw, a.lh)
           IN  /\ fx \in 0 .. a.frame.w - 1 /\ fy \in 0 .. a.frame.h - 1
               \* the displayed pixel (fx, fy) is under the click
               /\ Abs((a.x - g.off_x) * g.sc[2] - fx * g.sc[1]) <= g.sc[1] + g.sc[2]
               /\ Abs((a.y - g.off_y) * g.sc[2] - fy * g.sc[1]) <= g.sc[1] + g.sc[2]
               /\ a.target = "A" => ch = [a.chroma EXCEPT !.pickA = rgb]
               /\ a.target = "B" => ch = [a.chroma EXCEPT !.pickB = rgb]
               /\ target = "none"
      /\ ~hit => (ch = a.chroma /\ target = a.target)

\* C22: a preview click with target A or B armed, a last frame and a
\* position on the displayed image stores the clicked pixel of the last
\* frame, as <<r, g, b>>, in pickA or pickB respectively, changes no other
\* field and disarms the target; any other click changes no field of
\* ChromaConfig and leaves the target as it was; and no step other than
\* such a click changes pickA or pickB.
C22_ColourPick ==
  [][/\ (call'.fn = "on_preview_click" /\ call' # call) =>
          (/\ call'.args.chroma = chroma /\ call'.args.target = pick_target
           /\ call'.args.frame = last_frame_bgr
           /\ ClickOutcome(call', chroma', pick_target'))
     /\ (chroma'.pickA # chroma.pickA \/ chroma'.pickB # chroma.pickB) =>
          (/\ call'.fn = "on_preview_click"
           /\ pick_target \in {"A", "B"} /\ pick_target' = "none"
           /\ last_frame_bgr # NoImage)]_vars

\* target B armed, a click on the displayed 58x29 frame: pixel (28, 11) is
\* stored in pickB with red first, pickA is untouched
C22_Witness ==
  /\ call.fn = "on_preview_click" /\ call.args.target = "B"
  /\ call.args.lw = 10 /\ call.args.x = 5 /\ call.args.y = 4
  /\ call.rect = <<28, 11>>
  /\ chroma.pickB = <<239, 89, 113>> /\ chroma.pickA = call.args.chroma.pickA
  /\ pick_target = "none"

(***************************************************************************)
(* config.json.  The file is the set of the members of the JSON document:  *)
(* <<group, field, value>>, the value as json.dump writes it.  Opacities   *)
(* are numbers in percent.                                                 *)
(***************************************************************************)
BoolFields ==
  {"always_on_top", "click_through", "window_mirror", "vcam_enabled", "vcam_mirror",
   "enabled", "use_hsv", "persist"}
ListFields == {"pickA", "pickB", "rect"}
StrFields == {"window_shape", "vcam_fit"}

\* json.dump of the value v of the field k: True, False, None, a list, a str
\* and a number each have their own form in the text
JsonDump(k, v) ==
  IF k \in BoolFields THEN [j |-> IF v THEN "true" ELSE "false", v |-> << >>]
  ELSE IF k \in ListFields
  THEN IF v = None THEN [j |-> "null", v |-> << >>] ELSE [j |-> "array", v |-> v]
  ELSE IF k \in StrFields THEN [j |-> "string", v |-> <<v>>]
  ELSE [j |-> "number", v |-> <<v>>]

\* json.load of one value
JsonLoad(t) ==
  IF t.j = "true" THEN TRUE
  ELSE IF t.j = "false" THEN FALSE
  ELSE IF t.j = "null" THEN None
  ELSE IF t.j = "array" THEN t.v
  ELSE t.v[1]

\* the members json.dump writes for asdict(obj) under the key group
DumpGroup(group, obj) == { <<group, k, JsonDump(k, obj[k])>> : k \in DOMAIN obj }

\* the document that leaves out the crop group
json_dump_NoCrop(st, chr, cr) == DumpGroup("state", st) \cup DumpGroup("chroma", chr)

\* data = {"state": asdict(state), "chroma": asdict(chroma), "crop": asdict(crop)}
json_dump(st, chr, cr) ==
  DumpGroup("state", st) \cup DumpGroup("chroma", chr) \cup DumpGroup("crop", cr)

\* what open(CONFIG_FILE, "w") and json.dump can do: both succeed, open
\* raises (the file stays as it was), the write breaks off (the file is cut)
SaveOutcomes == {"ok", "open_failed", "write_failed"}

\* save_config: the file after it; the exception of a failure is logged
save_config(file, st, chr, cr, io) ==
  IF io = "open_failed" THEN file
  ELSE IF io = "write_failed"
  THEN [kind |-> "partial", doc |-> {}, writes |-> file.writes + 1]
  ELSE [kind |-> "json", doc |-> json_dump(st, chr, cr), writes |-> file.writes + 1]

\* one group of the document as load_config finds it in data
LoadedGroup(doc, group) ==
  LET keys == { mem[2] : mem \in { x \in doc : x[1] = group } }
  IN  IF keys = {} THEN Absent
      ELSE Map([k \in keys |->
                  JsonLoad((CHOOSE mem \in doc : mem[1] = group /\ mem[2] = k)[3])])

\* json.load(f): a file whose text was cut is no JSON and makes it raise
json_load(file) ==
  IF file.kind = "partial" THEN SavedFile("invalid", Absent, Absent, Absent)
  ELSE SavedFile("ok", LoadedGroup(file.doc, "state"), LoadedGroup(file.doc, "chroma"),
                 LoadedGroup(file.doc, "crop"))

(***************************************************************************)
(* SpecLife: every action of the user on the window and on the tray that   *)
(* reaches the camera, the timer, the virtual camera or the window's       *)
(* visibility, up to the end of the program.                               *)
(***************************************************************************)
\* _cleanup: the timer stops, close() is called on the device self.vcam
\* refers to (the reference stays), the camera is released
cleanup(L) ==
  [L EXCEPT !.timer_active = FALSE,
            !.dev = IF L.vcam # "none" THEN CloseDevice(L.dev) ELSE L.dev,
            !.cap_open = FALSE]

\* closeEvent after its save: _cleanup, the tray icon goes, the event is
\* accepted and the window closes
closeEvent(L) == [cleanup(L) EXCEPT !.visible = FALSE]

\* force_quit: the tray icon goes, _cleanup, then self.close() delivers the
\* close event, then QApplication.quit()
force_quit(L) == closeEvent(cleanup(L))

\* the window is closed (Ctrl+Q, or the close request of the system)
CloseEvent ==
  /\ app = "running" /\ visible
  /\ SetLife(closeEvent(Life))
  /\ \E io \in SaveOutcomes :
       /\ config_file' = IF chroma.persist
                         THEN save_config(config_file, state, chroma, crop, io)
                         ELSE config_file
       /\ call' = [NoCall EXCEPT !.fn = "closeEvent",
                                 !.args = [saved |-> <<state, chroma, crop>>, io |-> io]]
  /\ app' = "closed"
  /\ ev' = Ev("closeEvent")
  /\ UNCHANGED <<pick_target, chroma, crop, sizevars, pipevars, send_failed, pix>>

\* the item "Выход" of the window menu or of the tray menu
ForceQuit ==
  /\ app = "running"
  /\ SetLife(force_quit(Life))
  /\ \E io \in SaveOutcomes :
       /\ config_file' = IF chroma.persist
                         THEN save_config(config_file, state, chroma, crop, io)
                         ELSE config_file
       /\ call' = [NoCall EXCEPT !.fn = "force_quit",
                                 !.args = [saved |-> <<state, chroma, crop>>, io |-> io]]
  /\ app' = "closed"
  /\ ev' = Ev("force_quit")
  /\ UNCHANGED <<pick_target, chroma, crop, sizevars, pipevars, send_failed, pix>>

\* the item "Всегда поверх" of the window menu or of the tray menu:
\* set_always_on_top sets the flag and the window flags and calls self.show()
OnTopClicked ==
  /\ app = "running"
  /\ state' = [state EXCEPT !.always_on_top = ~state.always_on_top]
  /\ visible' = TRUE
  /\ ev' = Ev("set_always_on_top")
  /\ UNCHANGED <<chroma, crop, cap_open, timer_active, vcam, act_vcam_enable, tray_act_show,
                 sizevars, pipevars, send_failed, purevars, extvars>>

\* the item "Прокликиваемый": set_click_through sets the flag and calls
\* self.show(); the tray menu has the item also while the window menu is
\* not available
ClickThroughClicked ==
  /\ app = "running"
  /\ state' = [state EXCEPT !.click_through = ~state.click_through]
  /\ visible' = TRUE
  /\ ev' = Ev("set_click_through")
  /\ UNCHANGED <<chroma, crop, cap_open, timer_active, vcam, act_vcam_enable, tray_act_show,
                 sizevars, pipevars, send_failed, purevars, extvars>>

\* the handlers of Spec while the program runs
LifeTick == app = "running" /\ on_tick(MissFrames, MaxMissShort)
LifeTrayShow == app = "running" /\ TrayShowClicked
LifeVcamMenu == app = "running" /\ VcamMenuClicked
LifeVcamHotkey == app = "running" /\ VcamHotkey
LifeCamToggle == app = "running" /\ CamToggleClicked

NextLife ==
  \/ LifeTick \/ LifeTrayShow \/ LifeVcamMenu \/ LifeVcamHotkey \/ LifeCamToggle
  \/ OnTopClicked \/ ClickThroughClicked \/ CloseEvent \/ ForceQuit

SpecLife == InitSpec /\ [][NextLife]_vars

(***************************************************************************)
(* Claims about the lifecycle (checked under SpecLife).                    *)
(***************************************************************************)
\* C21: whenever toggle_camera turns an open camera off, the camera is
\* released, the tick timer is stopped, the virtual-camera device is closed,
\* the window is hidden and the tray item "show window" is unchecked.
C21_CameraOffHidesWindow ==
  [][(ev'.h = "toggle_camera" /\ cap_open) =>
       (/\ ~cap_open' /\ ~timer_active'
        /\ vcam' = "none" /\ (vcam_dev'.made => vcam_dev'.closes >= 1)
        /\ ~visible' /\ ~tray_act_show')]_vars

\* C27: while the program runs, an open virtual camera has the capture
\* camera open, the tick timer active and the window shown.
C27_OpenVcamIsFed ==
  (app = "running" /\ vcam # "none") => (cap_open /\ timer_active /\ visible)

\* C28: close() is never called twice on a virtual-camera device, a device
\* the window has let go of has been closed, and no device is left unclosed
\* when the program has ended.
C28_DeviceClosedOnce ==
  /\ vcam_dev.closes <= 1
  /\ (vcam_dev.made /\ (vcam = "none" \/ app = "closed")) => vcam_dev.closes = 1

(***************************************************************************)
(* SpecSave: the settings are changed, the program ends (closeEvent saves  *)
(* them when chroma.persist is set) and is started again, which loads      *)
(* config.json into fresh default objects.                                 *)
(***************************************************************************)
\* the file is rewritten at most MaxWrites times
MaxWrites == 2

\* AppState as an earlier run or the menus have left it
SaveStates ==
  {AppStateDefault,
   [AppStateDefault EXCEPT !.always_on_top = FALSE, !.circle_diameter = 200, !.pos_x = -30,
                           !.window_shape = "square", !.window_opacity = 55]}

InitSave ==
  /\ \E st \in SaveStates, pa \in {None, <<9, 9, 9>>}, p \in BOOLEAN :
       /\ state = st
       /\ chroma = [ChromaDefault EXCEPT !.pickA = pa, !.persist = p]
  /\ crop = CropDefault
  /\ cap_open = TRUE
  /\ timer_active = TRUE
  /\ vcam = "none"
  /\ act_vcam_enable = FALSE
  /\ tray_act_show = TRUE
  /\ visible = TRUE
  /\ win_w = state.circle_diameter
  /\ vcam_size = <<1920, 1080>>
  /\ no_frame_count = 0
  /\ last_frame_bgr = NoImage
  /\ current_qpix = NoPix
  /\ ev = EvNone
  /\ send_failed = FALSE
  /\ pick_target = "none"
  /\ vcam_dev = NoDevice
  /\ app = "running"
  /\ config_file = EmptyFile
  /\ call = NoCall
  /\ pix = NoPixCall

\* the window is constructed and the user can act on it
Constructed == app = "running" /\ call.fn # "load_config"

\* hotkey M and the menu item: set_window_mirror(not state.window_mirror)
MirrorToggled ==
  /\ Constructed
  /\ state' = [state EXCEPT !.window_mirror = ~state.window_mirror]
  /\ call' = [NoCall EXCEPT !.fn = "set_window_mirror"]
  /\ ev' = Ev("set_window_mirror")
  /\ UNCHANGED <<chroma, crop, lifevars, sizevars, pipevars, send_failed, pix, extvars>>

\* the check box "Сохранять настройки" of the chroma dialog (line 478)
PersistToggled ==
  /\ Constructed
  /\ chroma' = [chroma EXCEPT !.persist = ~chroma.persist]
  /\ call' = [NoCall EXCEPT !.fn = "persist_chk"]
  /\ ev' = Ev("persist_chk")
  /\ UNCHANGED <<state, crop, lifevars, sizevars, pipevars, send_failed, pix, extvars>>

\* the crop dialog is accepted with a rectangle or with none
CropPicked ==
  /\ Constructed
  /\ \E rect \in {None, <<1, 0, 2, 2>>} :
       crop' = [crop EXCEPT !.rect = rect, !.enabled = (rect # None)]
  /\ call' = [NoCall EXCEPT !.fn = "open_crop_dialog"]
  /\ ev' = Ev("open_crop_dialog")
  /\ UNCHANGED <<state, chroma, lifevars, sizevars, pipevars, send_failed, pix, extvars>>

SaveClose == Constructed /\ CloseEvent
SaveQuit == Constructed /\ ForceQuit

\* the program is started again: __init__ up to line 726 makes fresh default
\* objects, and load_config is about to read the file.  call.rect keeps what
\* the run that ended has saved, << >> when it has saved nothing.
Restart ==
  /\ app = "closed" /\ config_file.writes < MaxWrites
  /\ state' = AppStateDefault
  /\ chroma' = ChromaDefault
  /\ crop' = CropDefault
  /\ cap_open' = TRUE
  /\ timer_active' = TRUE
  /\ vcam' = "none"
  /\ act_vcam_enable' = FALSE
  /\ tray_act_show' = TRUE
  /\ visible' = TRUE
  /\ win_w' = 360
  /\ no_frame_count' = 0
  /\ last_frame_bgr' = NoImage
  /\ current_qpix' = NoPix
  /\ ev' = Ev("__init__")
  /\ send_failed' = FALSE
  /\ pick_target' = "none"
  /\ vcam_dev' = NoDevice
  /\ app' = "running"
  /\ call' = [NoCall EXCEPT !.fn = "load_config",
                            !.args = json_load(config_file),
                            !.rect = IF call.args.saved[2].persist /\ call.args.io = "ok"
                                     THEN <<call.args.saved>> ELSE << >>]
  /\ UNCHANGED <<config_file, vcam_size, pix>>

NextSave ==
  \/ MirrorToggled \/ PersistToggled \/ CropPicked \/ SaveClose \/ SaveQuit
  \/ Restart \/ LoadConfig \/ InitRest

SpecSave == InitSave /\ [][NextSave]_vars

(***************************************************************************)
(* Claims about saving and loading (checked under SpecSave).               *)
(***************************************************************************)
\* C30: when the run that ended has saved the settings, load_config on fresh
\* default objects gives every field of state, chroma and crop the value it
\* had at the save; and the end of the program rewrites the file only when
\* chroma.persist is set, and always then unless the file cannot be opened.
C30_SaveLoadRoundTrip ==
  [][/\ (call.fn = "load_config" /\ ~call.done /\ call'.done /\ call.rect # << >>) =>
          <<state', chroma', crop'>> = call.rect[1]
     /\ (app = "running" /\ app' = "closed") =>
          /\ (config_file'.writes # config_file.writes) => chroma.persist
          /\ (chroma.persist /\ call'.args.io # "open_failed") =>
               config_file'.writes = config_file.writes + 1
          /\ (~chroma.persist) => config_file' = config_file]_vars

\* settings that differ from the defaults were saved and have been loaded
C30_Witness ==
  /\ call.fn = "load_config" /\ call.done /\ call.rect # << >>
  /\ config_file.writes = 1
  /\ state.window_mirror /\ state.window_shape = "square" /\ state.window_opacity = 55
  /\ chroma.pickA = <<9, 9, 9>> /\ chroma.pickB = None /\ chroma.persist
  /\ crop = [enabled |-> TRUE, rect |-> <<1, 0, 2, 2>>]

(***************************************************************************)
(* Claims about on_tick, checked under SpecPipe.                           *)
(***************************************************************************)
\* the names of the operations ops[from], ..., ops[Len(ops)]
OpNames(ops, from) == [i \in 1 .. (Len(ops) - from + 1) |-> ops[from + i - 1].op]

\* the operations the vcam stage applies after the window's ROI
VcamStageNames(st) ==
  (IF st.vcam_mirror THEN <<"flip">> ELSE << >>) \o <<"bgr2rgb", "resize">>
    \o (IF st.vcam_fit = "fill" THEN <<"slice">> ELSE <<"canvas">>)

\* C4: on every tick that hands a frame to vcam.send, the frame is made from
\* the square cover-fit ROI of the window image of that same tick: it is
\* that ROI flipped iff vcam_mirror, fitted to vcam_w x vcam_h by cover fit
\* when vcam_fit is "fill" and by letterbox otherwise.
C4_VcamParity ==
  (ev.h = "on_tick" /\ ev.send # "none") =>
    LET roi == current_qpix.roi
        out == ev.out
        n   == Len(roi.ops)
    IN  /\ ev.published
        /\ roi.w = Max(1, win_w) /\ roi.h = Max(1, win_w)
        /\ out.w = vcam_size[1] /\ out.h = vcam_size[2]
        /\ Len(out.ops) > n
        /\ SubSeq(out.ops, 1, n) = roi.ops
        /\ OpNames(out.ops, n + 1) = VcamStageNames(state)
        /\ out = (IF state.vcam_fit = "fill"
                  THEN center_crop_fit(CvtBgr2Rgb(IF state.vcam_mirror THEN Flip(roi) ELSE roi),
                                       vcam_size[1], vcam_size[2])
                  ELSE letterbox(CvtBgr2Rgb(IF state.vcam_mirror THEN Flip(roi) ELSE roi),
                                 vcam_size[1], vcam_size[2]))

\* a cropped, mirrored window whose ROI went to a letterboxing vcam
C4_Witness ==
  /\ ev.h = "on_tick" /\ ev.send = "ok"
  /\ crop.enabled /\ state.window_mirror /\ state.vcam_mirror
  /\ state.vcam_fit = "fit"
  /\ vcam_size = <<1920, 1080>>
  /\ ev.out.cw = 1080 /\ ev.out.cx = 420

\* C5: a tick whose read fails leaves the window image, last_frame_bgr and
\* the configuration as they were, sends nothing to the virtual camera and
\* lets no exception escape.
C5_FailedReadKeepsOutputs ==
  [][ev'.read = "fail" =>
       /\ current_qpix' = current_qpix
       /\ last_frame_bgr' = last_frame_bgr
       /\ UNCHANGED cfgvars
       /\ vcam' = vcam
       /\ ev'.send = "none" /\ ~ev'.published /\ ~ev'.exc /\ ~ev'.escaped]_vars

\* a failed read while an image is displayed
C5_Witness ==
  /\ ev.h = "on_tick" /\ ev.read = "fail"
  /\ current_qpix # NoPix /\ last_frame_bgr # NoImage
  /\ vcam = "open"

\* C6: a tick in which any stage fails, or yields a zero-width or
\* zero-height frame, raises nothing and produces no output at all: neither
\* a new window image nor a vcam frame.
C6_AllOrNothing ==
  (ev.h = "on_tick" /\ (ev.exc \/ ev.send = "failed")) =>
    (~ev.escaped /\ ~ev.published /\ ev.send = "none")

\* C16: when crop is enabled and the stored rect has a non-positive width
\* or height, the tick treats it as "no crop": the window image is cut from
\* the whole raw frame, not from a cropped sub-image.
C16_InvalidRectIsNoCrop ==
  (/\ ev.h = "on_tick" /\ ev.published
   /\ crop.enabled /\ crop.rect # None /\ Len(crop.rect) = 4
   /\ (crop.rect[3] <= 0 \/ crop.rect[4] <= 0))
    => /\ current_qpix.roi.ops[1] = last_frame_bgr.ops[1]
       /\ current_qpix.roi.ops[2].op # "slice"

RECURSIVE FlipCount(_)
\* the number of horizontal flips in a chain of operations
FlipCount(ops) ==
  IF ops = << >> THEN 0
  ELSE (IF Head(ops).op = "flip" THEN 1 ELSE 0) + FlipCount(Tail(ops))

\* the vcam frame the last tick would have produced from the same raw frame
\* with state.window_mirror set to wm
VcamOutWith(wm) ==
  LET src  == CropSrc(last_frame_bgr, crop)
      disp == IF wm THEN Flip(src) ELSE src
      roi  == CoverRoi(disp, win_w)
  IN  VcamOut(VcamSource(roi, src), state, vcam_size)

C18_TickKeepsConfigAndFrame ==
  [][ev'.h = "on_tick" =>
       /\ state' = state /\ chroma' = chroma /\ crop' = crop
       /\ ev'.read = "ok" =>
            /\ last_frame_bgr' \in PipeFrames
            /\ Len(last_frame_bgr'.ops) = 1
       /\ ev'.read # "ok" => last_frame_bgr' = last_frame_bgr]_vars

\* a mirrored, cropped tick whose send failed: the rect is still the stored
\* (unclamped) one and the last frame is the whole 640x480 frame
C18_Witness ==
  /\ ev.h = "on_tick" /\ ev.send = "failed"
  /\ state.window_mirror /\ state.vcam_enabled
  /\ crop = [enabled |-> TRUE, rect |-> <<1000, 1000, 50, 50>>]
  /\ CropClamp(crop.rect, 640, 480) # crop.rect
  /\ last_frame_bgr = Frame(1, 640, 480)
  /\ current_qpix.roi.ops[2].op = "slice"

(***************************************************************************)
(* Claims about the virtual camera after a failed send, checked under      *)
(* Spec, and about the missed-frame counter, checked under SpecMiss.       *)
(***************************************************************************)
\* C7 as stated: a failed send closes and clears the device, and from then
\* on no tick attempts a send, whatever ticks and hide/show events follow,
\* until the user enables the virtual camera again.
C7_NoSendUntilReenabled ==
  [][/\ ev'.send = "failed" => vcam' = "none"
     /\ send_failed => ev'.send = "none"]_vars

\* C8: _no_frame_count is the number of consecutive failed reads since the
\* last successful read (a successful read resets it to 0), and a failed
\* read logs the diagnostic exactly when the incremented count is 1, 10, 50
\* or a multiple of 100.
C8_MissedFrameDiagnostics ==
  [][/\ ev'.read = "fail" =>
          /\ no_frame_count' = no_frame_count + 1
          /\ ev'.diag <=> (\/ no_frame_count' = 1 \/ no_frame_count' = 10
                           \/ no_frame_count' = 50 \/ no_frame_count' % 100 = 0)
     /\ ev'.read = "ok" => (no_frame_count' = 0 /\ ~ev'.diag)
     /\ ev'.read = "none" => (no_frame_count' = no_frame_count /\ ~ev'.diag)]_vars

\* the 200th consecutive miss, logged
C8_Witness == ev.read = "fail" /\ no_frame_count = 200 /\ ev.diag

====
